---- MODULE Spec2Model ----
(***************************************************************************)
(* The chat relay of server/app/dm_server.py: the listener (receive), the  *)
(* registry (clients, under clients_lock), the helpers broadcast,          *)
(* send_to_user and send_user_list, and the per-connection handler         *)
(* (handle) with its byte buffer, its line loop and its file relay.        *)
(*                                                                         *)
(* A client's byte stream is a sequence of tokens.  A control frame is one *)
(* token (the JSON text of the line) followed by the newline token; file   *)
(* payload bytes may be any token, a newline or the text of a frame        *)
(* included.  Every token counts as one byte of len(buffer) / len(line).   *)
(***************************************************************************)
EXTENDS Integers, Sequences, FiniteSets, TLC

\* ----------------------------------------------------------------- bounds
NConn == 3
MaxRecv == 2
MaxBytes == 6
MaxTime == 2
MaxFrameBytes == 12
\* messages stored at most
MaxStored == 2
\* bytes of a reply to request_auth, and bytes of one read of it
MaxReply == 3
MaxRead == 2
\* lines of one sender of files
MaxLines == 4
\* requests to the persistence service that may overlap
MaxReq == 3

\* ------------------------------------------- program constants (scaled)
BUFFER_SIZE == 3
MAX_MESSAGE_SIZE == 4
FILE_TRANSFER_TIMEOUT == 1
HANDSHAKE_TIMEOUT == 2

Conns == 1 .. NConn
Users == {"alice", "bob", "carol"}
UserOrder == <<"alice", "bob", "carol">>

\* file_metadata = None
NoMeta == [type |-> "none"]
\* what json.loads makes of a line that is no JSON text
Invalid == [type |-> "invalid"]
\* what json.loads makes of a JSON text that is no object (a list, a number, a
\* string): a value without .get
NotObject == [type |-> "not_object"]

VARIABLES
    sock,       \* per connection: the peer's end (none | up | gone) and whether the relay closed it
    clients,    \* the registry: username -> connection, 0 when the name is absent
    h,          \* per connection: the locals of its handle() thread
    now,        \* time.time()
    wr,         \* the socket writes of the last step, in order
    ev,         \* the last step: which operation, on which connection, for which frame
    g,          \* per connection, history: bytes read so far (rd), the writes made through
                \* receiver_socket since the last forwarded start frame (xlog), the stream
                \* positions consumed by the line logic (parsed), the position of the last
                \* newline split off (nlpos) and of the first payload byte (xbase), and,
                \* per socket, the stream position of the last frame or payload byte
                \* delivered to it for this connection (last); the bytes read since
                \* the last newline of the stream (line), the newlines that ended a
                \* frame's line of MAX_MESSAGE_SIZE bytes (exact) or of one byte more
                \* (over), the newlines of the lines handed to the dispatch (disp)
                \* and of those answered 'Message too large' (rej), and the
                \* newlines of the frames that lay whole in a buffer when it was
                \* cleared (lost); whether
                \* request_auth was sent to it (asked) and the line it answered (tok)
    nrecv,      \* number of reads made so far (bounds the run)
    env,        \* the environment variables the two servers were started with
    db,         \* the tables of the persistence service
    http,       \* the requests made to the service in the last step, with the status answered
    issued,     \* the access tokens the auth service has issued at login
    lis,        \* the locals of receive() for the connection it is shaking hands with:
                \* the bytes read so far (data) and the time the recv under way has
                \* been waiting (idle)
    srv         \* per request thread of the persistence service: where it is in its
                \* handler, its locals, and its answer

vars == <<sock, clients, h, now, wr, ev, g, nrecv, env, db, http, issued, lis, srv>>

\* ------------------------------------------------------------ byte tokens
NL == [k |-> "nl"]
D == [k |-> "d"]
\* a byte of JSON whitespace
SP == [k |-> "sp"]
F(f) == [k |-> "f", f |-> f]

Group(m) == [type |-> "group", message |-> m]
Dm(to, m) == [type |-> "dm", to |-> to, message |-> m]
Start(r, n, id) == [type |-> "file_transfer_start", receiver |-> r, file_size |-> n, file_id |-> id]
End(id) == [type |-> "file_transfer_end", file_id |-> id]
RequestUsers == [type |-> "request_users"]
\* the frame f with the end-to-end-encryption payload of its client
Encrypted(f) ==
    [k \in DOMAIN f \cup {"encrypted_data"} |->
        IF k = "encrypted_data" THEN "ciphertext, nonce, mac" ELSE f[k]]

Error(m) == [type |-> "error", message |-> m]
System(m) == [type |-> "system", message |-> m]
UserList(us) == [type |-> "user_list", users |-> us]
LengthPrefix(n) == [type |-> "length_prefix", n |-> n]
Payload(ps) == [type |-> "payload", pos |-> ps]

Min(a, b) == IF a < b THEN a ELSE b
Take(s, n) == SubSeq(s, 1, Min(n, Len(s)))
Drop(s, n) == SubSeq(s, Min(n, Len(s)) + 1, Len(s))
SeqsUpTo(S, n) == UNION {[1 .. k -> S] : k \in 1 .. n}
Positions(buf) == [i \in 1 .. Len(buf) |-> buf[i].p]
PosSet(buf) == {buf[i].p : i \in 1 .. Len(buf)}

IsNL(e) == e.t.k = "nl"
HasNL(buf) == \E i \in 1 .. Len(buf) : IsNL(buf[i])
FirstNL(buf) == CHOOSE i \in 1 .. Len(buf) : IsNL(buf[i]) /\ \A j \in 1 .. i - 1 : ~IsNL(buf[j])

\* line 148: not line.strip()
IsBlank(line) == \A i \in 1 .. Len(line) : line[i].t.k = "sp"

\* json.loads(line.decode('utf-8')): the line is the text of one frame with
\* whitespace around it, or it raises
Parse(line) ==
    LET fs == {i \in 1 .. Len(line) : line[i].t.k = "f"}
    IN IF Cardinality(fs) = 1 /\ \A i \in 1 .. Len(line) : line[i].t.k \in {"f", "sp"}
       THEN line[CHOOSE i \in fs : TRUE].t.f
       ELSE Invalid

\* mutant: the last complete line of the buffer is taken first
SplitLastLine(buf) ==
    LET nls == {i \in 1 .. Len(buf) : IsNL(buf[i])}
        j == CHOOSE i \in nls : \A k \in nls : k <= i
        before == {i \in nls : i < j}
        i0 == IF before = {} THEN 0 ELSE CHOOSE i \in before : \A k \in before : k <= i
    IN [line |-> SubSeq(buf, i0 + 1, j - 1),
        rest |-> SubSeq(buf, 1, i0) \o SubSeq(buf, j + 1, Len(buf)),
        nl |-> buf[j].p]

\* The frames that lie whole in a buffer, behind its first newline: the
\* positions of the newlines that end a line of at most MAX_MESSAGE_SIZE bytes
\* which is the text of a frame.
LostFrames(buf) ==
    LET nls == {i \in 1 .. Len(buf) : IsNL(buf[i])}
        prev(j) == CHOOSE i \in nls : i < j /\ \A k \in nls : k < j => k <= i
    IN {buf[j].p : j \in {j \in nls :
            /\ \E i \in nls : i < j
            /\ j - prev(j) - 1 <= MAX_MESSAGE_SIZE
            /\ Parse(SubSeq(buf, prev(j) + 1, j - 1)).type \notin {"invalid", "not_object"}}}

\* line 147: line, buffer = buffer.split(b'\n', 1)
SplitLine(buf) ==
    [line |-> SubSeq(buf, 1, FirstNL(buf) - 1),
     rest |-> SubSeq(buf, FirstNL(buf) + 1, Len(buf)),
     nl |-> buf[FirstNL(buf)].p]

\* ---------------------------------------------------------------- sockets
\* socket.send / sendall raise once the peer is gone or the socket is closed
SendOk(s) == sock[s].peer = "up" /\ ~sock[s].closed

\* one write: the socket, the handle it went through, whether it succeeded, what
W(to, via, item) == [to |-> to, via |-> via, ok |-> SendOk(to), item |-> item]

\* ------------------------------------------------------ registry helpers
Online(cl) == {u \in Users : cl[u] # 0}

BroadcastTargets(cl, exclude_user) ==
    SelectSeq(UserOrder, LAMBDA u : cl[u] # 0 /\ u # exclude_user)

\* broadcast(message_data, exclude_user): under clients_lock, a send to every
\* entry but exclude_user; the entries whose send raised are deleted
broadcast(cl, message_data, exclude_user) ==
    LET tg == BroadcastTargets(cl, exclude_user)
    IN [cl |-> [u \in Users |->
                  IF cl[u] # 0 /\ u # exclude_user /\ ~SendOk(cl[u]) THEN 0 ELSE cl[u]],
        wr |-> [i \in 1 .. Len(tg) |-> W(cl[tg[i]], "clients", message_data)]]

\* mutant: the message goes to every registered session
send_to_everyone(cl, username, message_data) ==
    [ret |-> cl[username] # 0 /\ SendOk(cl[username]),
     cl |-> cl,
     wr |-> [i \in 1 .. Len(BroadcastTargets(cl, "")) |->
               W(cl[BroadcastTargets(cl, "")[i]], "clients", message_data)]]

\* send_to_user(username, message_data)
send_to_user(cl, username, message_data) ==
    IF cl[username] # 0
    THEN IF SendOk(cl[username])
         THEN [ret |-> TRUE, cl |-> cl, wr |-> <<W(cl[username], "clients", message_data)>>]
         ELSE [ret |-> FALSE, cl |-> [cl EXCEPT ![username] = 0],
               wr |-> <<W(cl[username], "clients", message_data)>>]
    ELSE [ret |-> FALSE, cl |-> cl, wr |-> <<>>]

\* send_user_list() taken in one step: the keys, then a broadcast of them
send_user_list(cl) == broadcast(cl, UserList(Online(cl)), "")

\* ------------------------------------------------ the persistence service
\* Python's None (JSON null), kept apart from every string a client can send
None == "None"
\* request.json when the body is the JSON text null
JsonNull == [json |-> "null"]

required_fields == <<"sender", "recipient", "ciphertext", "nonce", "mac", "type">>

\* the tables Message, ChatList and SessionInfo (the timestamps are left out)
DbInit == [messages |-> <<>>, chats |-> {}, sessions |-> {}]

\* Message(...): the row made of a request that has the six fields
MessageRow(data) ==
    [sender |-> data.sender, recipient |-> data.recipient, ciphertext |-> data.ciphertext,
     nonce |-> data.nonce, mac |-> data.mac, message_type |-> data.type, read |-> FALSE]

\* the columns declared nullable=False: the INSERT of a row with a None in one
\* of them raises IntegrityError at the flush
RowInsertable(row) ==
    \A k \in {"sender", "recipient", "ciphertext", "nonce", "mac", "message_type"} :
        row[k] # None

ChatEntry(chats, username, chat_with) ==
    {e \in chats : e.username = username /\ e.chat_with = chat_with}

\* lines 452-488: the sender's entry is found or made, the recipient's entry is
\* made with one unread message or its count goes up by one
UpdateChats(chats, sender, recipient) ==
    LET c1 == IF ChatEntry(chats, sender, recipient) = {}
              THEN chats \cup {[username |-> sender, chat_with |-> recipient, unread_count |-> 0]}
              ELSE chats
        old == ChatEntry(c1, recipient, sender)
    IN IF old = {}
       THEN c1 \cup {[username |-> recipient, chat_with |-> sender, unread_count |-> 1]}
       ELSE (c1 \ old) \cup {[e EXCEPT !.unread_count = @ + 1] : e \in old}

\* save_encrypted_message(): the answer's status and the tables afterwards
save_encrypted_message(dbs, data) ==
    IF data = JsonNull
    THEN [status |-> 500, db |-> dbs]
    ELSE IF \E i \in 1 .. Len(required_fields) : required_fields[i] \notin DOMAIN data
    THEN [status |-> 400, db |-> dbs]
    ELSE IF ~RowInsertable(MessageRow(data))
    THEN [status |-> 500, db |-> dbs]
    ELSE [status |-> 201,
          db |-> [dbs EXCEPT !.messages = Append(@, MessageRow(data)),
                             !.chats = IF data.type = "dm"
                                       THEN UpdateChats(@, data.sender, data.recipient)
                                       ELSE @]]

\* str.strip() on the names that requests carry: a registered name has no
\* whitespace (validate_username, lines 139-147); a request may pad one
strip(s) == IF s = " bob " THEN "bob" ELSE IF s = " " THEN "" ELSE s

\* sorted([user1, user2])
Rank(u) == CHOOSE i \in 1 .. Len(UserOrder) : UserOrder[i] = u
sorted(user1, user2) == IF Rank(user1) <= Rank(user2) THEN <<user1, user2>> ELSE <<user2, user1>>

\* SessionInfo.query.filter_by(user1=user1, user2=user2): the rows of the pair
\* (uq_session_pair lets at most one be there)
SessionRows(dbs, user1, user2) ==
    {s \in dbs.sessions : s.user1 = user1 /\ s.user2 = user2}

\* get_session_info(), lines 348-383: the answer to POST /api/session/info
get_session_info(dbs, data) ==
    LET user1 == strip(data.user1)
        user2 == strip(data.user2)
        pair == sorted(user1, user2)
        rows == SessionRows(dbs, pair[1], pair[2])
    IN IF user1 = "" \/ user2 = "" THEN [status |-> 400]
       ELSE IF rows = {} THEN [status |-> 200, ratchet_count |-> 0, exists |-> FALSE]
       ELSE [status |-> 200, ratchet_count |-> (CHOOSE s \in rows : TRUE).ratchet_count,
             exists |-> TRUE]

\* increment_ratchet(), lines 389-405: the names are checked and put in order and
\* the pair's row is read; the thread's locals afterwards
ratchet_read(dbs, data) ==
    LET user1 == strip(data.user1)
        user2 == strip(data.user2)
        pair == sorted(user1, user2)
    IN IF user1 = "" \/ user2 = "" THEN [pc |-> "done", status |-> 400]
       ELSE [pc |-> "read", user1 |-> pair[1], user2 |-> pair[2],
             session |-> SessionRows(dbs, pair[1], pair[2])]

\* increment_ratchet(), lines 407-422: a row with count 1 is inserted, or the
\* row read before is written back with its count put up by one in the thread;
\* the commit, and the answer.  The INSERT of a pair that has a row by now
\* breaks uq_session_pair: rollback, 500.
ratchet_write(dbs, t) ==
    LET rows == SessionRows(dbs, t.user1, t.user2)
        count == IF t.session = {} THEN 1 ELSE (CHOOSE s \in t.session : TRUE).ratchet_count + 1
        new == [user1 |-> t.user1, user2 |-> t.user2, ratchet_count |-> count]
    IN IF t.session = {} /\ rows # {}
       THEN [db |-> dbs,
             t |-> [pc |-> "done", user1 |-> t.user1, user2 |-> t.user2, status |-> 500]]
       ELSE [db |-> [dbs EXCEPT !.sessions = (@ \ rows) \cup {new}],
             t |-> [pc |-> "done", user1 |-> t.user1, user2 |-> t.user2, status |-> 200,
                    ratchet_count |-> count]]

\* mutant: the messages are marked, the entry keeps its count
mark_read_keeps_count(dbs, data) ==
    LET username == strip(data.username)
        chat_with == strip(data.chat_with)
    IN IF username = "" \/ chat_with = "" THEN [status |-> 400, db |-> dbs]
       ELSE [status |-> 200,
             db |-> [dbs EXCEPT !.messages =
                        [i \in DOMAIN @ |->
                            IF @[i].sender = chat_with /\ @[i].recipient = username
                            THEN [@[i] EXCEPT !.read = TRUE] ELSE @[i]]]]

\* mark_messages_read(), lines 544-578: the unread messages that chat_with sent
\* to username are marked read, whatever their type; the entry of username for
\* chat_with, if there is one, has its count set to 0; the answer's status and
\* the tables afterwards
mark_messages_read(dbs, data) ==
    LET username == strip(data.username)
        chat_with == strip(data.chat_with)
        chat_entry == ChatEntry(dbs.chats, username, chat_with)
    IN IF username = "" \/ chat_with = "" THEN [status |-> 400, db |-> dbs]
       ELSE [status |-> 200,
             db |-> [dbs EXCEPT !.messages =
                        [i \in DOMAIN @ |->
                            IF @[i].sender = chat_with /\ @[i].recipient = username
                            THEN [@[i] EXCEPT !.read = TRUE] ELSE @[i]],
                                !.chats =
                        (@ \ chat_entry) \cup {[e EXCEPT !.unread_count = 0] : e \in chat_entry}]]

\* ChatHistoryManager.save_message(): the JSON body of its POST
save_message(sender, recipient, message, msg_type) ==
    [sender |-> sender, recipient |-> recipient, message |-> message, type |-> msg_type]

\* the requests of one step, served in order: the exchanges and the tables afterwards
RECURSIVE Serve(_, _)
Serve(dbs, rq) ==
    IF rq = <<>> THEN [db |-> dbs, http |-> <<>>]
    ELSE LET r == save_encrypted_message(dbs, Head(rq))
             t == Serve(r.db, Tail(rq))
         IN [db |-> t.db, http |-> <<[data |-> Head(rq), status |-> r.status]>> \o t.http]

\* requests.post as save_message sees it: the service answers ("up"), or the call
\* raises ConnectionError ("refused") or Timeout ("timeout") and nothing is served
Net == {"up", "refused", "timeout"}
Call(dbs, rq, net) ==
    IF net = "up" THEN Serve(dbs, rq)
    ELSE [db |-> dbs, http |-> [i \in 1 .. Len(rq) |-> [data |-> rq[i], status |-> 0, net |-> net]]]

\* ------------------------------------------------------------- the tokens
\* The environment variables: a value, or None when the variable is not set.
Secrets == {"s1", "s2"}
Envs == [JWT_SECRET : Secrets \cup {None}, JWT_SECRET_KEY : Secrets \cup {None}]
\* both variables set to one secret
SharedEnv == [JWT_SECRET |-> "s1", JWT_SECRET_KEY |-> "s1"]

\* dm_server.py, line 15: os.getenv("JWT_SECRET_KEY", "jwt-dev-secret")
JWT_SECRET(e) == IF e.JWT_SECRET_KEY = None THEN "jwt-dev-secret" ELSE e.JWT_SECRET_KEY

\* unified_server.py, lines 12-14: os.getenv("JWT_SECRET"); without it the
\* service raises RuntimeError and does not start
IssuerStarts(e) == e.JWT_SECRET # None
IssuerSecret(e) == e.JWT_SECRET

\* a token: its subject, the secret it is signed with, whether its exp has passed
Sign(sub, key) == [sub |-> sub, key |-> key, expired |-> FALSE]
Aged(t) == [t EXCEPT !.expired = TRUE]

\* what the listener reads in answer to request_auth: nothing (the peer closed),
\* a line that is no JSON object, or an object with or without a token
NoLine == [k |-> "eof"]
Garbage == [k |-> "garbage"]
NoToken == [k |-> "json"]
TokenLine(t) == [k |-> "json", token |-> t]
HasToken(line) == line.k = "json" /\ "token" \in DOMAIN line

\* the bytes of an answer to request_auth: the JSON text of a reply, as one token
T(line) == [k |-> "t", line |-> line]

IsSpace(t) == t.k \in {"sp", "nl"}

\* line 525: data.decode('utf-8').strip()
Strip(data) ==
    LET ix == {i \in 1 .. Len(data) : ~IsSpace(data[i])}
        first == CHOOSE i \in ix : \A j \in ix : i <= j
        last == CHOOSE i \in ix : \A j \in ix : j <= i
    IN IF ix = {} THEN <<>> ELSE SubSeq(data, first, last)

\* lines 525-527: json.loads(message) and auth_data.get("token").  The message is
\* one JSON text or json.loads raises; a frame is an object without a token; a
\* JSON text that is no object has no .get
Reply(data) ==
    LET message == Strip(data)
    IN IF Len(message) # 1 THEN Garbage
       ELSE IF message[1].k = "t" THEN message[1].line
       ELSE IF message[1].k = "f" /\ message[1].f.type # "not_object" THEN NoToken
       ELSE Garbage

\* data += chunk.  A run of bytes that are no JSON is kept as one of them:
\* json.loads raises on it whatever its length.
RECURSIVE Squeeze(_)
Squeeze(data) ==
    IF Len(data) < 2 THEN data
    ELSE IF data[1] = D /\ data[2] = D THEN Squeeze(Tail(data))
    ELSE <<Head(data)>> \o Squeeze(Tail(data))

\* mutant: the exp claim is not looked at
DecodeNoExpiry(token, key) ==
    IF token.key # key THEN [err |-> "Invalid token"] ELSE [sub |-> token.sub]

\* jwt.decode(token, JWT_SECRET, algorithms=[JWT_ALGORITHM]): the signature
\* first, then the exp claim; the payload when both pass
Decode(token, key) ==
    IF token.key # key THEN [err |-> "Invalid token"]
    ELSE IF token.expired THEN [err |-> "Token expired"]
    ELSE [sub |-> token.sub]

\* line 565: username.replace('_', '').isalnum() and len(username) <= 30
Names == Users \cup {"", "a b"}
FormatOk(username) == username \notin {"", "a b"}

\* ---------------------------------------------------------- handler state
HandlerInit ==
    [pc |-> "none", username |-> "", buffer |-> <<>>, file_metadata |-> NoMeta,
     receiver_socket |-> 0, bytes_relayed |-> 0, expected |-> 0,
     transfer_start_time |-> -1, user_list |-> {}]
HandlerDone(username) == [HandlerInit EXCEPT !.pc = "done", !.username = username]
\* the request threads of the persistence service, and a thread without a request
Reqs == 1 .. MaxReq
ThreadInit == [pc |-> "idle"]

\* receive(), lines 511-514: settimeout(10.0) and data = b''
ListenerInit == [data |-> <<>>, idle |-> 0]

GhostInit ==
    [rd |-> 0, xlog |-> <<>>, parsed |-> {}, nlpos |-> 0, xbase |-> 0,
     last |-> [r \in Conns |-> 0],
     line |-> <<>>, exact |-> {}, over |-> {}, disp |-> {}, rej |-> {}, lost |-> {},
     asked |-> FALSE, tok |-> NoLine]

Running(c) == h[c].pc \in {"frame", "relay", "list"}

Init ==
    /\ sock = [c \in Conns |-> [peer |-> "none", closed |-> FALSE]]
    /\ clients = [u \in Users |-> 0]
    /\ h = [c \in Conns |-> HandlerInit]
    /\ now = 0
    /\ wr = <<>>
    /\ ev = [op |-> "init", c |-> 0, f |-> NoMeta]
    /\ g = [c \in Conns |-> GhostInit]
    /\ nrecv = 0
    /\ env = SharedEnv
    /\ db = DbInit
    /\ http = <<>>
    /\ issued = {}
    /\ lis = ListenerInit
    /\ srv = [r \in Reqs |-> ThreadInit]

\* ------------------------------------------------------------ the handler
\* What one step of handle() comes to: the thread's locals, the registry, the
\* writes, whether an exception reached the outer except (break), the history,
\* the requests made to the persistence service (rq), and how the network
\* treats them (net).
Eff(hc, cl, w, die, gc) ==
    [hc |-> hc, cl |-> cl, wr |-> w, die |-> die, gc |-> gc, rq |-> <<>>, net |-> "up"]

\* a client.send outside any try: when it raises, the handler breaks out of its loop
ClientSend(c, hc, cl, pre, item, gc) ==
    LET w == W(c, "client", item) IN Eff(hc, cl, pre \o <<w>>, ~w.ok, gc)

\* a client.send inside try/except: pass
ClientSendQuiet(c, hc, cl, pre, item, gc) ==
    Eff(hc, cl, pre \o <<W(c, "client", item)>>, FALSE, gc)

\* mutant: the loop stops one byte short of the declared size
MoreToRelayShort(hc) == hc.bytes_relayed + 1 < hc.expected

\* line 298: while bytes_relayed < expected
MoreToRelay(hc) == hc.bytes_relayed < hc.expected

\* mutant: everything buffered is taken for payload
DataPartAll(buf_bytes, need) == buf_bytes

\* data_part = buf_bytes[:need]
DataPart(buf_bytes, need) == Take(buf_bytes, need)

\* lines 280-296: the bytes already buffered behind the start frame go first
InitialBuffered(c, hc, cl, pre, gc) ==
    LET need == hc.expected - hc.bytes_relayed
        data_part == DataPart(hc.buffer, need)
        w == W(hc.receiver_socket, "receiver_socket", Payload(Positions(data_part)))
        leftover == Drop(hc.buffer, Len(data_part))
    IN IF Len(data_part) = 0 THEN Eff(hc, cl, pre, FALSE, gc)
       ELSE IF ~w.ok THEN Eff(hc, cl, pre \o <<w>>, TRUE, gc)
       ELSE Eff([hc EXCEPT !.bytes_relayed = @ + Len(data_part), !.buffer = leftover],
                cl, pre \o <<w>>, FALSE, gc)

\* lines 172-346, up to the first recv of the streaming loop
DispatchStart(c, hc, f, gc) ==
    LET recipient == f.receiver
        rs == clients[recipient]
        meta == W(rs, "receiver_socket", f)
        h1 == [hc EXCEPT !.receiver_socket = rs]
        h2 == [h1 EXCEPT !.file_metadata = f, !.expected = f.file_size]
        pfx == W(rs, "receiver_socket", LengthPrefix(f.file_size))
        h3 == [h2 EXCEPT !.bytes_relayed = 0, !.transfer_start_time = now]
        e4 == InitialBuffered(c, h3, clients, <<meta, pfx>>, [gc EXCEPT !.xbase = gc.nlpos + 1])
    IN IF rs = 0
       THEN ClientSend(c, hc, clients, <<>>, Error(<<recipient, "is offline. Cannot send file.">>), gc)
       ELSE IF ~meta.ok
       THEN ClientSend(c, h1, clients, <<meta>>, Error(<<"Failed to reach", recipient>>), gc)
       ELSE IF h2.expected <= 0
       THEN ClientSend(c, h2, clients, <<meta>>, Error(<<"Invalid file size">>), gc)
       ELSE IF ~pfx.ok
       THEN ClientSend(c, h2, clients, <<meta, pfx>>, Error(<<"Receiver unreachable">>), gc)
       ELSE IF e4.die THEN e4
       ELSE [e4 EXCEPT !.hc.pc = IF MoreToRelay(e4.hc) THEN "relay" ELSE "frame"]

\* mutant: the end frame's file_id is not compared
EndMatchesAnyId(hc, f) ==
    /\ hc.file_metadata.type # "none"
    /\ hc.receiver_socket # 0

\* lines 347-365
EndMatches(hc, f) ==
    /\ hc.file_metadata.type # "none"
    /\ hc.file_metadata.file_id = f.file_id
    /\ hc.receiver_socket # 0

DispatchEnd(c, hc, f, gc) ==
    IF EndMatches(hc, f)
    THEN Eff([hc EXCEPT !.file_metadata = NoMeta, !.receiver_socket = 0,
                        !.bytes_relayed = 0, !.transfer_start_time = -1],
             clients, <<W(hc.receiver_socket, "receiver_socket", f)>>, FALSE, gc)
    ELSE Eff(hc, clients, <<>>, FALSE, gc)

\* the frame a group message is broadcast as
GroupData(username, f) == [type |-> "group", from |-> username, message |-> f.message]

\* mutant: a message that the service did not store is not broadcast; its sender
\* is told so
DispatchGroupStored(c, hc, f, gc) ==
    LET rq == <<save_message(hc.username, "group", f.message, "group")>>
        b == broadcast(clients, GroupData(hc.username, f), "")
    IN IF f.message = ""
       THEN ClientSend(c, hc, clients, <<>>, Error(<<"Invalid message">>), gc)
       ELSE IF Serve(db, rq).http[1].status # 201
       THEN [ClientSend(c, hc, clients, <<>>, Error(<<"Message not saved">>), gc) EXCEPT !.rq = rq]
       ELSE [Eff(hc, b.cl, b.wr, FALSE, gc) EXCEPT !.rq = rq]

\* lines 367-388
DispatchGroup(c, hc, f, gc) ==
    IF f.message = ""
    THEN ClientSend(c, hc, clients, <<>>, Error(<<"Invalid message">>), gc)
    ELSE LET b == broadcast(clients, GroupData(hc.username, f), "")
         IN [Eff(hc, b.cl, b.wr, FALSE, gc)
                EXCEPT !.rq = <<save_message(hc.username, "group", f.message, "group")>>]

\* the frames of the dm branch
DmData(username, f) == [type |-> "dm", from |-> username, message |-> f.message]
DmConfirmation(username, f) ==
    [type |-> "dm", from |-> username, to |-> f.to, message |-> f.message, sent |-> TRUE]
DmError(f) == Error(<<"User", f.to, "not found or offline">>)

\* mutant: the sender is told "sent" whatever send_to_user returned
DispatchDmAlwaysConfirm(c, hc, f, gc) ==
    LET r == send_to_user(clients, f.to, DmData(hc.username, f))
    IN [ClientSend(c, hc, r.cl, r.wr, DmConfirmation(hc.username, f), gc)
           EXCEPT !.rq = <<save_message(hc.username, f.to, f.message, "dm")>>]

\* lines 390-427
DispatchDm(c, hc, f, gc) ==
    IF f.message = ""
    THEN ClientSend(c, hc, clients, <<>>, Error(<<"Invalid message or recipient">>), gc)
    ELSE LET r == send_to_user(clients, f.to, DmData(hc.username, f))
             e == IF r.ret
                  THEN ClientSend(c, hc, r.cl, r.wr, DmConfirmation(hc.username, f), gc)
                  ELSE ClientSend(c, hc, r.cl, r.wr, DmError(f), gc)
         IN [e EXCEPT !.rq = <<save_message(hc.username, f.to, f.message, "dm")>>]

\* lines 429-430 and 98-99: send_user_list() takes the keys under clients_lock
\* and lets the lock go; the broadcast of them is a step of its own (SendList)
DispatchRequestUsers(c, hc, f, gc) ==
    Eff([hc EXCEPT !.pc = "list", !.user_list = Online(clients)], clients, <<>>, FALSE, gc)

\* lines 169-465: the branch on message_type
Dispatch(c, hc, f, gc) ==
    CASE f.type = "file_transfer_start" -> DispatchStart(c, hc, f, gc)
      [] f.type = "file_transfer_end" -> DispatchEnd(c, hc, f, gc)
      [] f.type = "group" -> DispatchGroup(c, hc, f, gc)
      [] f.type = "dm" -> DispatchDm(c, hc, f, gc)
      [] f.type = "request_users" -> DispatchRequestUsers(c, hc, f, gc)
      [] OTHER -> Eff(hc, clients, <<>>, FALSE, gc)

\* lines 146-475: one turn of the loop `while b'\n' in buffer`
LineStep(c) ==
    LET sp == SplitLine(h[c].buffer)
        line == sp.line
        hc == [h[c] EXCEPT !.buffer = sp.rest]
        gc == [g[c] EXCEPT !.parsed = @ \cup PosSet(line) \cup {sp.nl}, !.nlpos = sp.nl]
        f == Parse(line)
    IN IF IsBlank(line) THEN Eff(hc, clients, <<>>, FALSE, gc)
       ELSE IF Len(line) > MAX_MESSAGE_SIZE
       THEN ClientSendQuiet(c, hc, clients, <<>>, Error(<<"Message too large">>),
                            [gc EXCEPT !.rej = @ \cup {sp.nl}])
       ELSE IF f.type = "invalid"
       THEN ClientSendQuiet(c, hc, clients, <<>>, Error(<<"Invalid message format">>), gc)
       ELSE IF f.type = "not_object"
       THEN Eff(hc, clients, <<>>, TRUE, gc)
       ELSE Dispatch(c, hc, f, [gc EXCEPT !.disp = @ \cup {sp.nl}])

\* mutant: the departure and the user list are broadcast first, the name is
\* taken out of the registry last
cleanupRemoveLast(cl, username) ==
    LET b1 == broadcast(cl, System(<<username, "left the chat">>), "")
        b2 == send_user_list(b1.cl)
    IN [cl |-> [b2.cl EXCEPT ![username] = 0], wr |-> b1.wr \o b2.wr]

\* lines 481-497: the cleanup after the loop
cleanup(cl, username) ==
    LET cl1 == [cl EXCEPT ![username] = 0]
        b1 == broadcast(cl1, System(<<username, "left the chat">>), "")
        b2 == send_user_list(b1.cl)
    IN [cl |-> b2.cl, wr |-> b1.wr \o b2.wr]

\* the writes made through receiver_socket since the last forwarded start frame
XlogNext(xlog, w) ==
    LET rs == SelectSeq(w, LAMBDA x : x.via = "receiver_socket")
        st == {i \in 1 .. Len(rs) : rs[i].item.type = "file_transfer_start"}
    IN IF st = {} THEN xlog \o rs
       ELSE SubSeq(rs, CHOOSE i \in st : \A j \in st : j <= i, Len(rs))

\* a write that delivers a frame or payload bytes of the sender to a session
OnBehalf(w) ==
    /\ w.ok
    /\ w.via # "client"
    /\ w.item.type \in {"group", "dm", "file_transfer_start", "file_transfer_end", "payload"}

\* per socket, the stream position of what was delivered last: for a frame the
\* position nl of its line's newline, for payload the position of its last byte
LastNext(last, w, nl) ==
    [r \in Conns |->
        LET ix == {i \in 1 .. Len(w) : OnBehalf(w[i]) /\ w[i].to = r}
            m == CHOOSE i \in ix : \A j \in ix : j <= i
        IN IF ix = {} THEN last[r]
           ELSE IF w[m].item.type = "payload" THEN w[m].item.pos[Len(w[m].item.pos)]
           ELSE nl]

\* a step of handler c comes to effect e
Finish(c, e, op, f) ==
    LET fin == IF e.die THEN cleanup(e.cl, h[c].username) ELSE [cl |-> e.cl, wr |-> <<>>]
    IN /\ h' = [h EXCEPT ![c] = IF e.die THEN HandlerDone(h[c].username) ELSE e.hc]
       /\ clients' = fin.cl
       /\ sock' = IF e.die THEN [sock EXCEPT ![c].closed = TRUE] ELSE sock
       /\ wr' = e.wr \o fin.wr
       /\ ev' = [op |-> op, c |-> c, f |-> f]
       /\ g' = [g EXCEPT ![c] = IF e.die THEN [GhostInit EXCEPT !.rd = e.gc.rd, !.asked = g[c].asked,
                                                            !.tok = g[c].tok]
                                ELSE [e.gc EXCEPT !.xlog = XlogNext(@, e.wr),
                                                  !.last = LastNext(@, e.wr, e.gc.nlpos)]]
       /\ db' = Call(db, e.rq, e.net).db
       /\ http' = Call(db, e.rq, e.net).http
       /\ UNCHANGED <<env, issued, lis, srv>>

\* the chunk as buffer entries, numbered by their place in the client's stream
Entries(c, chunk) == [i \in 1 .. Len(chunk) |-> [t |-> chunk[i], p |-> g[c].rd + i]]

\* The frames of the stream as the client sent them: the bytes since the last
\* newline (kept up to MAX_MESSAGE_SIZE + 2 of them), and the newlines that ended
\* the line of a frame of exactly MAX_MESSAGE_SIZE bytes, or of one byte more.
RECURSIVE StreamLines(_, _)
StreamLines(gc, es) ==
    IF es = <<>> THEN gc
    ELSE IF IsNL(Head(es))
    THEN StreamLines(
             [gc EXCEPT !.line = <<>>,
                        !.exact = IF Len(gc.line) = MAX_MESSAGE_SIZE /\ Parse(gc.line).type # "invalid"
                                  THEN @ \cup {Head(es).p} ELSE @,
                        !.over = IF Len(gc.line) = MAX_MESSAGE_SIZE + 1 /\ Parse(gc.line).type # "invalid"
                                 THEN @ \cup {Head(es).p} ELSE @],
             Tail(es))
    ELSE StreamLines(
             [gc EXCEPT !.line = IF Len(@) > MAX_MESSAGE_SIZE + 1 THEN @ ELSE Append(@, Head(es))],
             Tail(es))

\* lines 121-143: chunk = client.recv(BUFFER_SIZE), then the overflow check
AfterRecv(c, chunk) ==
    LET buf == h[c].buffer \o Entries(c, chunk)
        gc == StreamLines([g[c] EXCEPT !.rd = @ + Len(chunk)], Entries(c, chunk))
    IN IF Len(buf) > MAX_MESSAGE_SIZE * 2
       THEN ClientSendQuiet(c, [h[c] EXCEPT !.buffer = <<>>], clients, <<>>,
                            Error(<<"Message too large, buffer cleared">>),
                            [gc EXCEPT !.parsed = @ \cup PosSet(buf),
                                       !.lost = @ \cup LostFrames(buf)])
       ELSE Eff([h[c] EXCEPT !.buffer = buf], clients, <<>>, FALSE, gc)

\* mutant: only the sender is told
StreamFailedSenderOnly(c, pre, reason, gc) ==
    Eff([h[c] EXCEPT !.pc = "frame"], clients,
        pre \o <<W(c, "client", Error(<<reason>>))>>, FALSE, gc)

\* the except of the streaming loop (lines 329-338): both ends are told, quietly
StreamFailed(c, pre, reason, gc) ==
    Eff([h[c] EXCEPT !.pc = "frame"], clients,
        pre \o <<W(c, "client", Error(<<reason>>)),
                 W(h[c].receiver_socket, "receiver_socket", Error(<<reason>>))>>,
        FALSE, gc)

TimedOut(start) == now - start > FILE_TRANSFER_TIMEOUT

\* lines 298-324: one turn of the streaming loop, for the chunk recv returned
AfterRelayRecv(c, chunk) ==
    LET hc == h[c]
        need == hc.expected - hc.bytes_relayed
        data_part == DataPart(Entries(c, chunk), need)
        tail == Drop(Entries(c, chunk), Len(data_part))
        w == W(hc.receiver_socket, "receiver_socket", Payload(Positions(data_part)))
        gc == [g[c] EXCEPT !.rd = @ + Len(chunk)]
        relayed == hc.bytes_relayed + Len(data_part)
        h1 == [hc EXCEPT !.bytes_relayed = relayed, !.buffer = tail \o hc.buffer]
    IN IF ~w.ok THEN StreamFailed(c, <<w>>, "receiver write failed", gc)
       ELSE IF TimedOut(hc.transfer_start_time)
       THEN [StreamFailed(c, <<w>>, "File transfer timeout", gc)
                EXCEPT !.hc.bytes_relayed = relayed, !.hc.buffer = tail \o hc.buffer]
       ELSE Eff([h1 EXCEPT !.pc = IF MoreToRelay(h1) THEN "relay" ELSE "frame"],
                clients, <<w>>, FALSE, gc)

\* ------------------------------------------------------- the environment
\* What clients send.  Under Spec every read returns one whole line (or, in the
\* streaming loop, payload bytes); under SpecBytes the one sending client's stream
\* is cut into reads at any byte.
LineBodies ==
    {Group("hi"), RequestUsers, End("F1")}
        \cup {Dm(u, "hi") : u \in Users}
        \cup {Start(r, 2, "F1") : r \in Users}
        \cup {Start("bob", 0, "F0")}

LineChunks(c) ==
    IF nrecv < MaxRecv THEN {<<F(b), NL>> : b \in LineBodies} ELSE {}

\* the lines of a sender of files: starts for receivers that are online, gone
\* or never came, with a good size or none, and ends for every file_id
TransferBodies ==
    {Start("bob", 1, "F1"), Start("carol", 1, "F2"), Start("carol", 1, "F1"),
     Start("bob", 0, "F0"), End("F0"), End("F1"), End("F2")}

TransferChunks(c) ==
    IF h[c].username = "alice" /\ nrecv < MaxLines
    THEN {<<F(b), NL>> : b \in TransferBodies}
    ELSE {}

\* line 300: to_read = min(BUFFER_SIZE, need)
ToRead(c) == Min(BUFFER_SIZE, h[c].expected - h[c].bytes_relayed)

LinePayload(c) == {[i \in 1 .. k |-> D] : k \in 1 .. ToRead(c)}

ByteAlphabet ==
    {NL, D, F(Start("bob", 2, "F1")), F(Start("bob", 1, "F2")), F(End("F1"))}

ByteChunks(c) ==
    IF h[c].username = "alice" /\ clients["bob"] # 0
    THEN {ch \in SeqsUpTo(ByteAlphabet, BUFFER_SIZE) : g[c].rd + Len(ch) <= MaxBytes}
    ELSE {}

BytePayload(c) ==
    {ch \in SeqsUpTo(ByteAlphabet, ToRead(c)) : g[c].rd + Len(ch) <= MaxBytes}

\* what the clients send while the listener admits another
LockChunks(c) ==
    IF nrecv < MaxRecv THEN {<<F(Group("hi")), NL>>, <<F(RequestUsers), NL>>} ELSE {}

FrameAlphabet == {SP, NL, F(Group("hi"))}

\* the lines of chat clients: group and dm frames, a line that is no JSON, and
\* a JSON text that is no object
NetChunks(c) ==
    IF nrecv < MaxRecv
    THEN {<<F(Group("hi")), NL>>, <<F(Encrypted(Group("hi"))), NL>>, <<D, NL>>,
          <<F(NotObject), NL>>}
             \cup {<<F(Dm(u, "hi")), NL>> : u \in Users}
    ELSE {}

FrameChunks(c) ==
    IF h[c].username = "alice" /\ clients["bob"] # 0
    THEN {ch \in SeqsUpTo(FrameAlphabet, BUFFER_SIZE) : g[c].rd + Len(ch) <= MaxFrameBytes}
    ELSE {}

\* the subject of the token a connection presents: the first as alice, the
\* second as bob, any later one as alice again or as carol
TokenUsers(c) ==
    IF c = 1 THEN {"alice"} ELSE IF c = 2 THEN {"bob"} ELSE {"alice", "carol"}

\* ---------------------------------------------------------------- actions
\* receive(), lines 504-511: accept and request_auth.  The listener is one thread:
\* it takes the next connection only when it is done with the last one.
\* Connections are numbered in the order in which they are accepted.
InHandshake(c) == sock[c].peer # "none" /\ ~sock[c].closed /\ h[c].pc = "none"

\* the listener is between the registration of c and the start of c's handler
Admitting(c) == h[c].pc \in {"welcome", "join", "keys", "keyed"}

Accept(c) ==
    /\ sock[c].peer = "none"
    /\ \A d \in Conns : d < c => sock[d].peer # "none"
    /\ \A d \in Conns : ~InHandshake(d) /\ ~Admitting(d)
    /\ sock' = [sock EXCEPT ![c].peer = "up"]
    /\ wr' = <<[to |-> c, via |-> "client", ok |-> TRUE, item |-> [type |-> "request_auth"]]>>
    /\ ev' = [op |-> "accept", c |-> c, f |-> NoMeta]
    /\ g' = [g EXCEPT ![c].asked = TRUE]
    /\ UNCHANGED <<clients, h, now, nrecv, env, db, issued, srv>>
    /\ lis' = ListenerInit
    /\ http' = <<>>

\* line 515: b'\n' in data
HasTokenLine(data) == \E i \in 1 .. Len(data) : data[i] = NL

\* receive(), lines 574-605, for a connection whose token was verified for u:
\* the registration under clients_lock, the welcome, the join notice, the user
\* list, and the handler thread.  `stays` is whether the peer is still there when
\* the welcome is written; when it is not, the send raises and the except closes.
Admission(c, u, stays) ==
    LET cl1 == [clients EXCEPT ![u] = c]
        b1 == broadcast(cl1, System(<<u, "joined the chat">>), u)
        b2 == send_user_list(b1.cl)
    IN IF clients[u] # 0
       THEN /\ sock' = [sock EXCEPT ![c].closed = TRUE]
            /\ wr' = <<W(c, "client", Error(<<"Username already taken">>))>>
            /\ ev' = [op |-> "reject", c |-> c, f |-> NoMeta]
            /\ UNCHANGED <<clients, h>>
       ELSE IF ~stays
       THEN /\ sock' = [sock EXCEPT ![c] = [peer |-> "gone", closed |-> TRUE]]
            /\ clients' = cl1
            /\ wr' = <<[W(c, "client", System(<<"Welcome to the server,", u>>))
                           EXCEPT !.ok = FALSE]>>
            /\ ev' = [op |-> "welcome_failed", c |-> c, f |-> NoMeta]
            /\ UNCHANGED h
       ELSE /\ clients' = b2.cl
            /\ wr' = <<W(c, "client", System(<<"Welcome to the server,", u>>))>>
                         \o b1.wr \o b2.wr
            /\ h' = [h EXCEPT ![c] = [HandlerInit EXCEPT !.pc = "frame", !.username = u]]
            /\ ev' = [op |-> "admit", c |-> c, f |-> NoMeta]
            /\ UNCHANGED sock

\* lines 527-570: the connection is turned away, with an error frame or without
Refuse(c, errors) ==
    /\ sock' = [sock EXCEPT ![c].closed = TRUE]
    /\ wr' = [i \in 1 .. Len(errors) |-> W(c, "client", Error(<<errors[i]>>))]
    /\ ev' = [op |-> "refused", c |-> c, f |-> NoMeta]
    /\ UNCHANGED <<clients, h>>

\* receive(), lines 513-605: the token line is read and the token verified with
\* the relay's secret; then the admission
Handshake(c, line, stays) ==
    /\ InHandshake(c)
    /\ g' = [g EXCEPT ![c].tok = line]
    /\ IF line = NoLine
       THEN /\ sock' = [sock EXCEPT ![c] = [peer |-> "gone", closed |-> TRUE]]
            /\ wr' = <<>>
            /\ ev' = [op |-> "refused", c |-> c, f |-> NoMeta]
            /\ UNCHANGED <<clients, h>>
       ELSE IF line = Garbage THEN Refuse(c, <<>>)
       ELSE IF ~HasToken(line) THEN Refuse(c, <<"Missing token">>)
       ELSE LET payload == Decode(line.token, JWT_SECRET(env))
            IN IF "err" \in DOMAIN payload THEN Refuse(c, <<payload.err>>)
               ELSE IF payload.sub = "" THEN Refuse(c, <<>>)
               ELSE IF ~FormatOk(payload.sub) THEN Refuse(c, <<"Invalid username format">>)
               ELSE Admission(c, payload.sub, stays)
    /\ UNCHANGED <<now, nrecv, env, db, issued, lis, srv>>
    /\ http' = <<>>

\* the handshake of a connection that presents an unexpired token for u, signed
\* with the relay's secret
Admit(c, u, stays) == Handshake(c, TokenLine(Sign(u, JWT_SECRET(env))), stays)

\* lines 515-520: one turn of `while b'\n' not in data`, a chunk having come
\* before the socket's timeout
TokenRecv(c, chunk) ==
    /\ InHandshake(c)
    /\ ~HasTokenLine(lis.data)
    /\ sock[c].peer = "up"
    /\ lis.idle < HANDSHAKE_TIMEOUT
    /\ lis' = [data |-> Squeeze(lis.data \o chunk), idle |-> 0]
    /\ wr' = <<>>
    /\ ev' = [op |-> "token_recv", c |-> c, f |-> NoMeta]
    /\ http' = <<>>
    /\ UNCHANGED <<sock, clients, h, now, g, nrecv, env, db, issued, srv>>

\* the recv of line 516 waits
Wait(c) ==
    /\ InHandshake(c)
    /\ ~HasTokenLine(lis.data)
    /\ lis.idle < HANDSHAKE_TIMEOUT
    /\ lis' = [lis EXCEPT !.idle = @ + 1]
    /\ wr' = <<>>
    /\ ev' = [op |-> "wait", c |-> c, f |-> NoMeta]
    /\ http' = <<>>
    /\ UNCHANGED <<sock, clients, h, now, g, nrecv, env, db, issued, srv>>

\* lines 516 and 607-612: the recv has waited for the socket's timeout and
\* raises; the except closes the socket
HandshakeTimeout(c) ==
    /\ InHandshake(c)
    /\ ~HasTokenLine(lis.data)
    /\ lis.idle = HANDSHAKE_TIMEOUT
    /\ sock' = [sock EXCEPT ![c].closed = TRUE]
    /\ wr' = <<>>
    /\ ev' = [op |-> "timeout", c |-> c, f |-> NoMeta]
    /\ http' = <<>>
    /\ UNCHANGED <<clients, h, now, g, nrecv, env, db, issued, lis, srv>>

\* lines 517-523: recv returns b'' before a newline came
TokenEof(c) ==
    /\ ~HasTokenLine(lis.data)
    /\ sock[c].peer = "up"
    /\ Handshake(c, NoLine, TRUE)

\* lines 525-605: the newline is there; the reply is parsed and answered
ParseReply(c, stays) ==
    /\ HasTokenLine(lis.data)
    /\ Handshake(c, Reply(lis.data), stays)

\* The admission once more, cut where the listener lets clients_lock go, so that
\* the handler threads may run in between: lines 574-585, the registration.
Register(c, u) ==
    /\ InHandshake(c)
    /\ IF clients[u] # 0
       THEN /\ sock' = [sock EXCEPT ![c].closed = TRUE]
            /\ wr' = <<W(c, "client", Error(<<"Username already taken">>))>>
            /\ ev' = [op |-> "reject", c |-> c, f |-> NoMeta]
            /\ UNCHANGED <<clients, h>>
       ELSE /\ clients' = [clients EXCEPT ![u] = c]
            /\ h' = [h EXCEPT ![c] = [HandlerInit EXCEPT !.pc = "welcome", !.username = u]]
            /\ wr' = <<>>
            /\ ev' = [op |-> "register", c |-> c, f |-> NoMeta]
            /\ UNCHANGED sock
    /\ g' = [g EXCEPT ![c].tok = TokenLine(Sign(u, JWT_SECRET(env)))]
    /\ UNCHANGED <<now, nrecv, env, db, issued, lis, srv>>
    /\ http' = <<>>

\* lines 591-595 and 607-612: the welcome; when the peer is gone the send raises
\* and the except closes the socket (the registry keeps the entry)
Welcome(c, stays) ==
    /\ h[c].pc = "welcome"
    /\ IF stays
       THEN /\ wr' = <<W(c, "client", System(<<"Welcome to the server,", h[c].username>>))>>
            /\ h' = [h EXCEPT ![c].pc = "join"]
            /\ ev' = [op |-> "welcome", c |-> c, f |-> NoMeta]
            /\ UNCHANGED sock
       ELSE /\ wr' = <<[W(c, "client", System(<<"Welcome to the server,", h[c].username>>))
                          EXCEPT !.ok = FALSE]>>
            /\ h' = [h EXCEPT ![c] = HandlerInit]
            /\ sock' = [sock EXCEPT ![c] = [peer |-> "gone", closed |-> TRUE]]
            /\ ev' = [op |-> "welcome_failed", c |-> c, f |-> NoMeta]
    /\ UNCHANGED <<clients, now, g, nrecv, env, db, issued, lis, srv>>
    /\ http' = <<>>

\* lines 597-600: the join notice to the others
JoinNotice(c) ==
    /\ h[c].pc = "join"
    /\ LET b == broadcast(clients, System(<<h[c].username, "joined the chat">>), h[c].username)
       IN /\ clients' = b.cl
          /\ wr' = b.wr
    /\ h' = [h EXCEPT ![c].pc = "keys"]
    /\ ev' = [op |-> "join", c |-> c, f |-> NoMeta]
    /\ UNCHANGED <<sock, now, g, nrecv, env, db, issued, lis, srv>>
    /\ http' = <<>>

\* lines 602 and 98-99: send_user_list() takes the keys
ListKeys(c) ==
    /\ h[c].pc = "keys"
    /\ h' = [h EXCEPT ![c].pc = "keyed", ![c].user_list = Online(clients)]
    /\ wr' = <<>>
    /\ ev' = [op |-> "keys", c |-> c, f |-> NoMeta]
    /\ UNCHANGED <<sock, clients, now, g, nrecv, env, db, issued, lis, srv>>
    /\ http' = <<>>

\* lines 101-106 and 604-605: the broadcast of the keys, then the handler thread
AdmitList(c) ==
    /\ h[c].pc = "keyed"
    /\ LET b == broadcast(clients, UserList(h[c].user_list), "")
       IN /\ clients' = b.cl
          /\ wr' = b.wr
    /\ h' = [h EXCEPT ![c].pc = "frame", ![c].user_list = {}]
    /\ ev' = [op |-> "admitlist", c |-> c, f |-> NoMeta]
    /\ UNCHANGED <<sock, now, g, nrecv, env, db, issued, lis, srv>>
    /\ http' = <<>>

\* unified_server.py, lines 215-240: a registered user logs in and is given
\* create_access_token(identity=username), signed with the service's secret
Login(u) ==
    /\ IssuerStarts(env)
    /\ issued' = issued \cup {Sign(u, IssuerSecret(env))}
    /\ wr' = <<>>
    /\ ev' = [op |-> "login", c |-> 0, f |-> NoMeta]
    /\ http' = <<>>
    /\ UNCHANGED <<sock, clients, h, now, g, nrecv, env, db, lis, srv>>

\* what a connection may answer to request_auth: nothing, no JSON, no token, a
\* token the auth service issued (fresh or past its exp), a token signed with a
\* secret of the sender's own, or a token whose subject is no username
AuthLines ==
    {NoLine, Garbage, NoToken}
        \cup {TokenLine(t) : t \in issued}
        \cup {TokenLine(Aged(t)) : t \in issued}
        \cup {TokenLine(Sign("alice", k)) : k \in {"s2", "jwt-dev-secret"}}
        \cup {TokenLine(Sign(n, JWT_SECRET(env))) : n \in Names \ Users}

\* POST /api/session/ratchet arrives at the free thread r: lines 389-405
RatchetRead(r, data) ==
    /\ srv[r].pc = "idle"
    /\ srv' = [srv EXCEPT ![r] = ratchet_read(db, data)]
    /\ wr' = <<>>
    /\ ev' = [op |-> "ratchet_read", c |-> 0, f |-> NoMeta]
    /\ http' = <<>>
    /\ UNCHANGED <<sock, clients, h, now, g, nrecv, env, db, issued, lis>>

\* thread r goes on: lines 407-422.  While another request is between its read
\* and its commit, the database may also refuse the write (busy): rollback, 500.
RatchetWrite(r, busy) ==
    /\ srv[r].pc = "read"
    /\ busy => \E q \in Reqs \ {r} : srv[q].pc = "read"
    /\ IF busy
       THEN /\ srv' = [srv EXCEPT ![r] = [pc |-> "done", user1 |-> srv[r].user1,
                                          user2 |-> srv[r].user2, status |-> 500]]
            /\ db' = db
       ELSE /\ srv' = [srv EXCEPT ![r] = ratchet_write(db, srv[r]).t]
            /\ db' = ratchet_write(db, srv[r]).db
    /\ wr' = <<>>
    /\ ev' = [op |-> "ratchet_write", c |-> 0, f |-> NoMeta]
    /\ http' = <<>>
    /\ UNCHANGED <<sock, clients, h, now, g, nrecv, env, issued, lis>>

\* the peer of connection c goes away: from now on a send to c raises and a recv
\* on c returns b'' or raises
PeerGone(c) ==
    /\ Running(c)
    /\ sock[c].peer = "up"
    /\ sock' = [sock EXCEPT ![c].peer = "gone"]
    /\ wr' = <<>>
    /\ ev' = [op |-> "gone", c |-> c, f |-> NoMeta]
    /\ UNCHANGED <<clients, h, now, g, nrecv, env, db, issued, lis, srv>>
    /\ http' = <<>>

\* time passes while a transfer is streaming (the clock is read nowhere else)
Tick ==
    /\ now < MaxTime
    /\ \E c \in Conns : h[c].pc = "relay"
    /\ now' = now + 1
    /\ wr' = <<>>
    /\ ev' = [op |-> "tick", c |-> 0, f |-> NoMeta]
    /\ UNCHANGED <<sock, clients, h, g, nrecv, env, db, issued, lis, srv>>
    /\ http' = <<>>

\* line 121: chunk = client.recv(BUFFER_SIZE) in the outer loop
Recv(c, chunks) ==
    /\ h[c].pc = "frame"
    /\ ~HasNL(h[c].buffer)
    /\ sock[c].peer = "up"
    /\ \E chunk \in chunks :
          Finish(c, AfterRecv(c, chunk), "recv", NoMeta)
    /\ nrecv' = nrecv + 1
    /\ UNCHANGED now

\* lines 122-124 and 477-479: recv returns b'' or raises; the loop ends, cleanup runs
Eof(c) ==
    /\ h[c].pc = "frame"
    /\ ~HasNL(h[c].buffer)
    /\ sock[c].peer = "gone"
    /\ Finish(c, Eff(h[c], clients, <<>>, TRUE, g[c]), "eof", NoMeta)
    /\ UNCHANGED <<now, nrecv>>

\* the handler is in its line loop with a complete line in the buffer
LineReady(c) == h[c].pc = "frame" /\ HasNL(h[c].buffer)

\* one line of the buffer is split off and dispatched
ProcessLine(c) ==
    /\ LineReady(c)
    /\ Finish(c, LineStep(c), "line", Parse(SplitLine(h[c].buffer).line))
    /\ UNCHANGED <<now, nrecv>>

\* the same turn of the line loop when the call to the persistence service meets
\* the network outcome net
ProcessLineNet(c, net) ==
    /\ LineReady(c)
    /\ Finish(c, [LineStep(c) EXCEPT !.net = net], "line", Parse(SplitLine(h[c].buffer).line))
    /\ UNCHANGED <<now, nrecv>>

\* lines 101-106: the broadcast of the keys that send_user_list() took
SendList(c) ==
    /\ h[c].pc = "list"
    /\ LET b == broadcast(clients, UserList(h[c].user_list), "")
       IN Finish(c, Eff([h[c] EXCEPT !.pc = "frame", !.user_list = {}], b.cl, b.wr, FALSE, g[c]),
                 "list", RequestUsers)
    /\ UNCHANGED <<now, nrecv>>

\* line 301: chunk = client.recv(to_read) in the streaming loop
Relay(c, chunks) ==
    /\ h[c].pc = "relay"
    /\ sock[c].peer = "up"
    /\ \E chunk \in chunks :
          Finish(c, AfterRelayRecv(c, chunk), "relay", NoMeta)
    /\ UNCHANGED <<now, nrecv>>

\* line 302-303: the sender is gone in the middle of its transfer
RelayEof(c) ==
    /\ h[c].pc = "relay"
    /\ sock[c].peer = "gone"
    /\ Finish(c, StreamFailed(c, <<>>, "Sender disconnected during file transfer", g[c]),
              "relay_eof", NoMeta)
    /\ UNCHANGED <<now, nrecv>>

\* A peer that has stopped reading, with the buffers of its connection full: a
\* send to its socket neither returns nor raises (after line 587, settimeout(None),
\* the socket has no timeout).
Stalled(s) == sock[s].peer = "stalled"

Stall(c) ==
    /\ Running(c)
    /\ sock[c].peer = "up"
    /\ sock' = [sock EXCEPT ![c].peer = "stalled"]
    /\ wr' = <<>>
    /\ ev' = [op |-> "stall", c |-> c, f |-> NoMeta]
    /\ http' = <<>>
    /\ UNCHANGED <<clients, h, now, g, nrecv, env, db, issued, lis, srv>>

\* a thread is inside `with clients_lock` (lines 62, 81), in a send that does
\* not return: a handler (blocked) or the listener, admitting a connection
\* (admit_blocked)
HoldsLock(c) == h[c].pc \in {"blocked", "admit_blocked"}
LockFree == \A c \in Conns : ~HoldsLock(c)

\* the writes of a step that do not return
Blocks(w) == {i \in 1 .. Len(w) : Stalled(w[i].to)}
FirstBlock(w) == CHOOSE i \in Blocks(w) : \A j \in Blocks(w) : i <= j

\* a step that comes to the effect e as far as its first write that does not
\* return: the writes before it are made, and the thread stays in that send, under
\* clients_lock when the send is one of broadcast or send_to_user
BlockedEff(e) ==
    [e EXCEPT !.hc.pc = IF e.wr[FirstBlock(e.wr)].via = "clients" THEN "blocked" ELSE "stuck",
              !.wr = SubSeq(e.wr, 1, FirstBlock(e.wr) - 1),
              !.cl = clients,
              !.die = FALSE]

\* the dispatch of the line that handler c is about to split off takes clients_lock
TakesLock(c) ==
    LET f == Parse(SplitLine(h[c].buffer).line)
    IN \/ f.type \in {"file_transfer_start", "request_users"}
       \/ f.type \in {"group", "dm"} /\ f.message # ""

\* one turn of the line loop, all of whose sends return
SlowLine(c) ==
    /\ LineReady(c)
    /\ TakesLock(c) => LockFree
    /\ Blocks(LineStep(c).wr) = {}
    /\ ProcessLine(c)

\* one turn of the line loop, up to a send that does not return
BlockLine(c) ==
    /\ LineReady(c)
    /\ TakesLock(c) => LockFree
    /\ Blocks(LineStep(c).wr) # {}
    /\ Finish(c, BlockedEff(LineStep(c)), "blocked", Parse(SplitLine(h[c].buffer).line))
    /\ UNCHANGED <<now, nrecv>>

\* the listener is in a send that does not return
ListenerBlocked == \E c \in Conns : h[c].pc = "admit_blocked"

\* lines 504-511 once the listener is back at accept()
SlowAccept(c) ==
    /\ ~ListenerBlocked
    /\ Accept(c)

\* the registered sessions whose peer has stopped reading
StalledUsers == {v \in Users : clients[v] # 0 /\ Stalled(clients[v])}

\* the admission of lines 513-605, all of whose sends return
SlowAdmit(c, u) ==
    /\ LockFree
    /\ clients[u] # 0 \/ StalledUsers = {}
    /\ Admit(c, u, TRUE)

\* the admission up to the join notice (lines 597-600) for a session whose peer
\* has stopped reading: the name is registered and welcomed, the notice is sent
\* to the sessions before that one, and the listener stays in that send
BlockAdmit(c, u) ==
    /\ InHandshake(c)
    /\ LockFree
    /\ clients[u] = 0
    /\ StalledUsers # {}
    /\ LET cl1 == [clients EXCEPT ![u] = c]
           b1 == broadcast(cl1, System(<<u, "joined the chat">>), u)
       IN /\ clients' = cl1
          /\ wr' = <<W(c, "client", System(<<"Welcome to the server,", u>>))>>
                       \o SubSeq(b1.wr, 1, FirstBlock(b1.wr) - 1)
    /\ h' = [h EXCEPT ![c] = [HandlerInit EXCEPT !.pc = "admit_blocked", !.username = u]]
    /\ ev' = [op |-> "admit_blocked", c |-> c, f |-> NoMeta]
    /\ g' = [g EXCEPT ![c].tok = TokenLine(Sign(u, JWT_SECRET(env)))]
    /\ http' = <<>>
    /\ UNCHANGED <<sock, now, nrecv, env, db, issued, lis, srv>>

Next ==
    \/ \E c \in Conns : Accept(c)
    \/ \E c \in Conns, stays \in BOOLEAN : \E u \in TokenUsers(c) : Admit(c, u, stays)
    \/ \E c \in Conns : PeerGone(c)
    \/ \E c \in Conns : Recv(c, LineChunks(c))
    \/ \E c \in Conns : Eof(c)
    \/ \E c \in Conns : ProcessLine(c)
    \/ \E c \in Conns : SendList(c)
    \/ \E c \in Conns : Relay(c, LinePayload(c))
    \/ \E c \in Conns : RelayEof(c)

Spec == Init /\ [][Next]_vars

\* The byte-level environment: alice (connection 1) sends, bob (connection 2)
\* receives and stays; alice's stream is cut into reads at any byte, and time
\* passes while a transfer streams.
ByteConns == {1, 2}

NextBytes ==
    \/ \E c \in ByteConns : Accept(c)
    \/ \E c \in ByteConns : \E u \in TokenUsers(c) : Admit(c, u, TRUE)
    \/ Tick
    \/ \E c \in ByteConns : Recv(c, ByteChunks(c))
    \/ \E c \in ByteConns : ProcessLine(c)
    \/ \E c \in ByteConns : Relay(c, BytePayload(c))

SpecBytes == Init /\ [][NextBytes]_vars

\* The admission cut at the listener's lock sections, with handlers that
\* broadcast in between.
NextLock ==
    \/ \E c \in Conns : Accept(c)
    \/ \E c \in Conns : \E u \in TokenUsers(c) : Register(c, u)
    \/ \E c \in Conns, stays \in BOOLEAN : Welcome(c, stays)
    \/ \E c \in Conns : JoinNotice(c)
    \/ \E c \in Conns : ListKeys(c)
    \/ \E c \in Conns : AdmitList(c)
    \/ \E c \in Conns : PeerGone(c)
    \/ \E c \in Conns : Recv(c, LockChunks(c))
    \/ \E c \in Conns : Eof(c)
    \/ \E c \in Conns : ProcessLine(c)
    \/ \E c \in Conns : SendList(c)

SpecLock == Init /\ [][NextLock]_vars

\* The frame-level environment: alice sends whitespace, newlines and group
\* frames, cut into reads at any byte; bob receives and stays.
NextFrames ==
    \/ \E c \in ByteConns : Accept(c)
    \/ \E c \in ByteConns : \E u \in TokenUsers(c) : Admit(c, u, TRUE)
    \/ \E c \in ByteConns : Recv(c, FrameChunks(c))
    \/ \E c \in ByteConns : ProcessLine(c)

SpecFrames == Init /\ [][NextFrames]_vars

\* The handshake environment: the two servers are started in any configuration
\* of the two variables, users log in at the auth service, and connections answer
\* request_auth with any line.
InitAuth ==
    /\ sock = [c \in Conns |-> [peer |-> "none", closed |-> FALSE]]
    /\ clients = [u \in Users |-> 0]
    /\ h = [c \in Conns |-> HandlerInit]
    /\ now = 0
    /\ wr = <<>>
    /\ ev = [op |-> "init", c |-> 0, f |-> NoMeta]
    /\ g = [c \in Conns |-> GhostInit]
    /\ nrecv = 0
    /\ env \in Envs
    /\ db = DbInit
    /\ http = <<>>
    /\ issued = {}
    /\ lis = ListenerInit
    /\ srv = [r \in Reqs |-> ThreadInit]

NextAuth ==
    \/ \E u \in {"alice", "bob"} : Login(u)
    \/ \E c \in Conns : Accept(c)
    \/ \E c \in Conns, stays \in BOOLEAN : \E line \in AuthLines : Handshake(c, line, stays)
    \/ \E c \in Conns : PeerGone(c)
    \/ \E c \in Conns : Eof(c)

SpecAuth == InitAuth /\ [][NextAuth]_vars

\* The chat environment with an unreliable persistence service: clients send
\* group and dm frames and lines that are no frames, and go away, and each save
\* meets any network outcome.
NextNet ==
    \/ \E c \in Conns : Accept(c)
    \/ \E c \in Conns : \E u \in TokenUsers(c) : Admit(c, u, TRUE)
    \/ \E c \in Conns : PeerGone(c)
    \/ \E c \in Conns : Recv(c, NetChunks(c))
    \/ \E c \in Conns : Eof(c)
    \/ \E c \in Conns, net \in Net : ProcessLineNet(c, net)

SpecNet == Init /\ [][NextNet]_vars

\* The handshake at the level of bytes: a connection answers request_auth with
\* whitespace, bytes that are no JSON, the text of a reply with a token of its
\* own, the text of a frame and newlines, cut into reads at any byte and sent
\* at any time, or with nothing.
ShakeAlphabet(c) ==
    {NL, SP, D, F(RequestUsers)}
        \cup {T(TokenLine(Sign(u, JWT_SECRET(env)))) : u \in TokenUsers(c)}

ShakeChunks(c) ==
    {ch \in SeqsUpTo(ShakeAlphabet(c), MaxRead) : Len(Squeeze(lis.data \o ch)) <= MaxReply}

NextShake ==
    \/ \E c \in Conns : Accept(c)
    \/ \E c \in Conns : \E chunk \in ShakeChunks(c) : TokenRecv(c, chunk)
    \/ \E c \in Conns : Wait(c)
    \/ \E c \in Conns : HandshakeTimeout(c)
    \/ \E c \in Conns : TokenEof(c)
    \/ \E c \in Conns, stays \in BOOLEAN : ParseReply(c, stays)

SpecShake == Init /\ [][NextShake]_vars

\* The listener's own steps are taken when they can be, and time passes; what a
\* connection sends, and when, is up to its peer.
FairShake ==
    /\ SpecShake
    /\ \A c \in Conns : WF_vars(Wait(c)) /\ WF_vars(HandshakeTimeout(c))
    /\ \A c \in Conns : WF_vars(\E stays \in BOOLEAN : ParseReply(c, stays))

\* The chat environment with peers that stop reading: clients send group and dm
\* frames, and any of them may stop reading for good.
SlowChunks(c) ==
    IF nrecv < MaxRecv
    THEN {<<F(Group("hi")), NL>>} \cup {<<F(Dm(u, "hi")), NL>> : u \in {"alice", "bob"}}
    ELSE {}

NextSlow ==
    \/ \E c \in Conns : SlowAccept(c)
    \/ \E c \in Conns : \E u \in TokenUsers(c) : SlowAdmit(c, u)
    \/ \E c \in Conns : \E u \in TokenUsers(c) : BlockAdmit(c, u)
    \/ \E c \in Conns : Stall(c)
    \/ \E c \in Conns : Recv(c, SlowChunks(c))
    \/ \E c \in Conns : SlowLine(c)
    \/ \E c \in Conns : BlockLine(c)

SpecSlow == Init /\ [][NextSlow]_vars

\* when a handler can take the next turn of its line loop, and when the listener
\* can go into the admission of connection c
CanLine(c) == LineReady(c) /\ (TakesLock(c) => LockFree)
CanAdmit(c) == InHandshake(c) /\ LockFree

\* The relay's threads take their steps when they can; what a client sends, and
\* whether it goes on reading, is up to the client.  The fairness is weak
\* fairness; for the line loop and the admission ENABLED is written out as the
\* actions' guards, CanLine and CanAdmit.
FairSlow ==
    /\ SpecSlow
    /\ \A c \in Conns : WF_vars(SlowAccept(c))
    /\ \A c \in Conns : []<>(~CanLine(c)) \/ []<><<SlowLine(c) \/ BlockLine(c)>>_vars
    /\ \A c \in Conns :
          []<>(~CanAdmit(c)) \/ []<><<\E u \in TokenUsers(c) : SlowAdmit(c, u) \/ BlockAdmit(c, u)>>_vars

\* The transfer environment: alice sends start and end frames in any order, each
\* payload in one read; bob and carol come, or do not, and go away at any time.
NextTransfers ==
    \/ \E c \in Conns : Accept(c)
    \/ \E c \in Conns : \E u \in TokenUsers(c) : Admit(c, u, TRUE)
    \/ \E c \in Conns \ {1} : PeerGone(c)
    \/ \E c \in Conns : Recv(c, TransferChunks(c))
    \/ \E c \in Conns : ProcessLine(c)
    \/ \E c \in Conns : Relay(c, LinePayload(c))

SpecTransfers == Init /\ [][NextTransfers]_vars

\* The session counters of the persistence service: up to MaxReq requests to
\* /api/session/ratchet, for alice and bob in either order, for one name twice,
\* with a padded and with an empty name, handled one by one or overlapping.
RatchetBodies == [user1 : {"alice", "bob", " bob ", ""}, user2 : {"alice", "bob"}]

NextRatchet ==
    \/ \E r \in Reqs : \E data \in RatchetBodies : RatchetRead(r, data)
    \/ \E r \in Reqs, busy \in BOOLEAN : RatchetWrite(r, busy)

SpecRatchet == Init /\ [][NextRatchet]_vars

\* The persistence service on its own: any client posts to /api/messages/save.
FullBody(sender, recipient, nonce, type) ==
    [sender |-> sender, recipient |-> recipient, ciphertext |-> "ct", nonce |-> nonce,
     mac |-> "mac", type |-> type]

Without(data, field) == [k \in DOMAIN data \ {field} |-> data[k]]

FullBodies ==
    {FullBody(sender, recipient, nonce, type) :
        sender \in {"alice", "bob"}, recipient \in {"alice", "bob", "group"},
        nonce \in {"n1", None}, type \in {"dm", "group"}}

\* the bodies posted: the JSON text null, an object with the six fields (a
\* value may be null), an object that lacks one of them, and the relay's object
Bodies ==
    {JsonNull}
        \cup {d \in FullBodies : d.sender # d.recipient}
        \cup {Without(FullBody("alice", "bob", "n1", "dm"), required_fields[i]) :
                 i \in 1 .. Len(required_fields)}
        \cup {save_message("alice", "bob", "hi", "dm")}

\* POST /api/messages/save with the JSON body data
Post(data) ==
    /\ Len(db.messages) < MaxStored
    /\ db' = Serve(db, <<data>>).db
    /\ http' = Serve(db, <<data>>).http
    /\ wr' = <<>>
    /\ ev' = [op |-> "post", c |-> 0, f |-> NoMeta]
    /\ UNCHANGED <<sock, clients, h, now, g, nrecv, env, issued, lis, srv>>

NextSave == \E data \in Bodies : Post(data)

SpecSave == Init /\ [][NextSave]_vars

\* POST /api/messages/mark_read with the JSON body data
MarkRead(data) ==
    /\ db' = mark_messages_read(db, data).db
    /\ http' = <<[data |-> data, status |-> mark_messages_read(db, data).status]>>
    /\ wr' = <<>>
    /\ ev' = [op |-> "mark_read", c |-> 0, f |-> NoMeta]
    /\ UNCHANGED <<sock, clients, h, now, g, nrecv, env, issued, lis, srv>>

\* the saves and the mark_read requests of two users, one request after
\* another: messages of both types in both directions and to oneself, a save
\* that fails, names that are padded or empty
ChatBodies ==
    {FullBody(sender, recipient, "n1", type) :
        sender \in {"alice", "bob"}, recipient \in {"alice", "bob"}, type \in {"dm", "group"}}
        \cup {FullBody("bob", "alice", None, "dm"), Without(FullBody("bob", "alice", "n1", "dm"), "mac")}

ReadBodies == [username : {"alice", "bob", " bob ", ""}, chat_with : {"alice", "bob"}]

NextChats ==
    \/ \E data \in ChatBodies : Post(data)
    \/ \E data \in ReadBodies : MarkRead(data)

SpecChats == Init /\ [][NextChats]_vars

\* ------------------------------------------------------------------ claims
\* What a transfer log says.
RECURSIVE PayloadPositions(_)
PayloadPositions(x) ==
    IF x = <<>> THEN <<>>
    ELSE (IF Head(x).item.type = "payload" THEN Head(x).item.pos ELSE <<>>)
             \o PayloadPositions(Tail(x))

ErrorsIn(x) == {i \in 1 .. Len(x) : x[i].item.type = "error"}
AllOk(x) == \A i \in 1 .. Len(x) : x[i].ok

\* the log of a transfer the relay accepted with a size n > 0, carried to its
\* end frame, no write to the receiver having failed
Accepted(x) ==
    /\ Len(x) >= 2
    /\ x[1].item.type = "file_transfer_start"
    /\ x[1].item.file_size > 0
    /\ x[Len(x)].item.type = "file_transfer_end"
    /\ AllOk(x)

Streaming(x) ==
    /\ Len(x) >= 2
    /\ x[1].item.type = "file_transfer_start"
    /\ x[2].item.type = "length_prefix"
    /\ AllOk(x)
    /\ ErrorsIn(x) = {} \/ Len(PayloadPositions(x)) >= x[1].item.file_size

C3_PayloadContiguous ==
    \A s \in Conns :
        (h[s].pc = "relay" /\ h[s].bytes_relayed > 0) =>
            \A i \in 1 .. Len(wr) :
                (wr[i].to = h[s].receiver_socket /\ wr[i].ok) =>
                    (ev.c = s /\ wr[i].via = "receiver_socket")

\* the users a handler's transfer refers to: its sender and its receiver
Active(c) == h[c].file_metadata.type # "none"
TransferUsers(c) == {h[c].username, h[c].file_metadata.receiver}

\* C4, as stated: no user is referred to by two active transfers at once.
C4_OneTransferPerUser ==
    \A c, d \in Conns :
        (c # d /\ Active(c) /\ Active(d)) => TransferUsers(c) \cap TransferUsers(d) = {}

\* C5, as stated: a start frame dispatched while the sender's earlier transfer
\* has not been ended is answered by one error frame to the sender and leaves
\* the handler's transfer state as it was.
C5_SecondStartRejected ==
    [][\A c \in Conns :
          (/\ ev'.op = "line" /\ ev'.c = c
           /\ ev'.f.type = "file_transfer_start"
           /\ h[c].file_metadata.type # "none")
          => (/\ h'[c].file_metadata = h[c].file_metadata
              /\ h'[c].receiver_socket = h[c].receiver_socket
              /\ h'[c].bytes_relayed = h[c].bytes_relayed
              /\ Len(wr') = 1
              /\ wr'[1].to = c
              /\ wr'[1].item.type = "error")]_vars

\* C6, as stated: a transfer the relay holds is eventually released.
C6_EventuallyReleased ==
    \A c \in Conns : Active(c) ~> ~Active(c)

\* C7, as stated: once a handler has exited, no handler holds a transfer with
\* the exited handler's connection as its receiver socket.
C7_NoReferenceAfterExit ==
    \A c, d \in Conns : (h[c].pc = "done" /\ Active(d)) => h[d].receiver_socket # c

\* C8, as stated: no two connections with a running handler share a username.
C8_UniqueLiveUsername ==
    \A c, d \in Conns :
        (c # d /\ Running(c) /\ Running(d)) => h[c].username # h[d].username

\* the last step dispatched a valid dm frame
DmStep == ev.op = "line" /\ ev.f.type = "dm" /\ ev.f.message # ""
\* ... which send_to_user delivered
DmDelivered == DmStep /\ wr[1].via = "clients" /\ wr[1].ok
\* the writes that reached a socket
OkWrites == SelectSeq(wr, LAMBDA w : w.ok)
\* the sender's socket took the reply
ReplyTaken == \E i \in 1 .. Len(wr) : wr[i].ok /\ wr[i].via = "client" /\ wr[i].to = ev.c

\* C9: a dm that is delivered, its sender's socket being writable, comes to two
\* writes and no more: the dm frame on the socket registered for the recipient,
\* then the confirmation on the sender's socket.
C9_DmDelivered ==
    (DmDelivered /\ ReplyTaken) =>
        wr = <<[to |-> clients[ev.f.to], via |-> "clients", ok |-> TRUE,
                item |-> [type |-> "dm", from |-> h[ev.c].username, message |-> ev.f.message]],
               [to |-> ev.c, via |-> "client", ok |-> TRUE,
                item |-> [type |-> "dm", from |-> h[ev.c].username, to |-> ev.f.to,
                          message |-> ev.f.message, sent |-> TRUE]]>>

\* a dm from one session to another is delivered and confirmed
C9_Witness == DmDelivered /\ ReplyTaken /\ clients[ev.f.to] # ev.c

\* C10: a dm that is not delivered (the recipient is not in the registry, or the
\* write to its socket fails), the sender's socket being writable, puts one
\* frame on a socket: the error naming the recipient, on the sender's socket;
\* the sender's handler runs on.
C10_DmNotDelivered ==
    (DmStep /\ ~DmDelivered /\ ReplyTaken) =>
        /\ OkWrites = <<[to |-> ev.c, via |-> "client", ok |-> TRUE,
                         item |-> Error(<<"User", ev.f.to, "not found or offline">>)]>>
        /\ Running(ev.c)
        /\ clients[ev.f.to] = 0

\* the recipient is registered but the write to its socket fails
C10_Witness ==
    DmStep /\ ~DmDelivered /\ ReplyTaken /\ Len(wr) = 2 /\ ~wr[1].ok

\* C11, as stated: the user_list frames that answer a request_users frame carry
\* the registry's keys as they are when the frames are sent.
C11_ListIsCurrent ==
    [][\A i \in 1 .. Len(wr') :
          (ev'.op = "list" /\ wr'[i].item.type = "user_list")
              => wr'[i].item.users = Online(clients)]_vars

\* the stream positions a write stands for: its payload bytes, or the newline
\* of the line being dispatched
Lo(w, nl) == IF w.item.type = "payload" THEN w.item.pos[1] ELSE nl
Hi(w, nl) == IF w.item.type = "payload" THEN w.item.pos[Len(w.item.pos)] ELSE nl

\* C12: what a handler delivers to a socket for its sender (group, dm and file
\* frames, payload bytes) is delivered in the order of the sender's stream:
\* every delivery of a step lies behind what the socket was delivered before,
\* and the deliveries of one step to one socket are in stream order.
C12_SenderOrderKept ==
    [][\A c \in Conns :
          (ev'.c = c /\ ev'.op \in {"line", "relay"}) =>
              LET nl == IF ev'.op = "line" THEN SplitLine(h[c].buffer).nl ELSE 0
              IN \A i \in 1 .. Len(wr') :
                    OnBehalf(wr'[i]) =>
                        /\ g[c].last[wr'[i].to] < Lo(wr'[i], nl)
                        /\ \A j \in 1 .. i - 1 :
                              (OnBehalf(wr'[j]) /\ wr'[j].to = wr'[i].to)
                                  => Hi(wr'[j], nl) < Lo(wr'[i], nl)
                        /\ wr'[i].item.type = "payload" =>
                              \A k \in 1 .. Len(wr'[i].item.pos) - 1 :
                                  wr'[i].item.pos[k] < wr'[i].item.pos[k + 1]]_vars

\* two frames that came in one read have both been delivered to bob
C12_Witness ==
    /\ ev.op = "line"
    /\ \E i \in 1 .. Len(wr) : OnBehalf(wr[i]) /\ wr[i].to = 2
    /\ g[1].last[2] >= 4
    /\ g[1].rd <= 4

\* the last step dispatched a valid group frame
GroupStep == ev.op = "line" /\ ev.f.type = "group" /\ ev.f.message # ""

\* C13, as stated: a valid group frame is written to the socket of every other
\* registered session and not to the sender's own socket.
C13_GroupToOthersOnly ==
    GroupStep =>
        /\ \A u \in Users :
              (clients[u] # 0 /\ clients[u] # ev.c) =>
                  \E i \in 1 .. Len(wr) :
                      wr[i].to = clients[u] /\ wr[i].ok /\ wr[i].item.type = "group"
        /\ \A i \in 1 .. Len(wr) : wr[i].item.type = "group" => wr[i].to # ev.c

\* C14, as stated: once the handler has worked off the lines it has read, every
\* frame whose line was exactly MAX_MESSAGE_SIZE bytes long has been handed to
\* the dispatch, and every frame of MAX_MESSAGE_SIZE + 1 bytes has been answered
\* with the error 'Message too large'.
C14_SizeBoundary ==
    \A c \in Conns :
        (h[c].pc = "frame" /\ ~HasNL(h[c].buffer)) =>
            /\ g[c].exact \subseteq g[c].disp
            /\ g[c].over \subseteq g[c].rej

\* the last step dispatched a start frame of size 0 and forwarded it
ZeroStart ==
    /\ ev.op = "line"
    /\ ev.f.type = "file_transfer_start"
    /\ ev.f.file_size = 0
    /\ \E i \in 1 .. Len(wr) : wr[i].item = ev.f /\ wr[i].ok

\* C15, as stated: a start frame of size 0 to an online receiver is forwarded,
\* nothing else is written (no payload, no error to the sender), and the handler
\* is back in its line loop, where the end frame of this transfer will be
\* forwarded.
C15_ZeroSizeCompletes ==
    ZeroStart =>
        /\ Len(wr) = 1
        /\ wr[1].via = "receiver_socket"
        /\ h[ev.c].pc = "frame"
        /\ EndMatches(h[ev.c], End(ev.f.file_id))

\* C16, as stated: on the admission of U the welcome is the first frame U's
\* socket receives after request_auth (nothing is written to it between the
\* accept and the welcome but by the listener); the join notice goes to every
\* other registered session and not to U; the user list that follows contains U.
C16_AdmissionOrder ==
    [][\A c \in Conns :
          /\ (InHandshake(c) \/ h[c].pc = "welcome") =>
                \A i \in 1 .. Len(wr') : (wr'[i].to = c /\ wr'[i].ok) => ev'.c = c
          /\ (ev'.op = "join" /\ ev'.c = c) =>
                /\ \A i \in 1 .. Len(wr') : wr'[i].to # c
                /\ \A u \in Users :
                      (clients[u] # 0 /\ clients[u] # c) =>
                          \E i \in 1 .. Len(wr') : wr'[i].to = clients[u]
          /\ (ev'.op = "admitlist" /\ ev'.c = c) =>
                \A i \in 1 .. Len(wr') : h[c].username \in wr'[i].item.users]_vars

\* The token of connection c as the relay's secret and the token's exp have it:
\* request_auth was sent, a token came back, its signature is the relay's and
\* its exp has not passed.
Verified(c) ==
    /\ g[c].asked
    /\ HasToken(g[c].tok)
    /\ g[c].tok.token.key = JWT_SECRET(env)
    /\ ~g[c].tok.token.expired

\* C17: a connection is in the registry, or has a handler, only after
\* request_auth was sent to it and the token it answered was verified; the name
\* it is registered or handled under is the subject of that token; a connection
\* whose token is missing, expired or invalid is in neither.
C17_VerifiedBeforeRegistered ==
    /\ \A u \in Users :
          clients[u] # 0 => Verified(clients[u]) /\ g[clients[u]].tok.token.sub = u
    /\ \A c \in Conns :
          h[c].pc # "none" => Verified(c) /\ g[c].tok.token.sub = h[c].username

\* a connection with an issued token is registered and handled, and another
\* that presented a token past its exp was turned away
C17_Witness ==
    \E c, d \in Conns :
       /\ h[c].pc = "frame"
       /\ clients[h[c].username] = c
       /\ g[c].tok.token \in issued
       /\ sock[d].closed
       /\ HasToken(g[d].tok)
       /\ g[d].tok.token.expired
       /\ \A u \in Users : clients[u] # d

\* the last step turned connection c away with this error
RefusedWith(c, message) ==
    /\ ev.op = "refused"
    /\ ev.c = c
    /\ \E i \in 1 .. Len(wr) : wr[i].to = c /\ wr[i].item = Error(<<message>>)

\* C18: wherever the auth service starts and issues a token at login, the
\* relay's handshake does not turn that token down while its exp has not
\* passed: a connection that presents an issued token is not answered
\* 'Invalid token' or 'Token expired'.
C18_IssuedTokenAccepted ==
    \A c \in Conns :
       HasToken(g[c].tok) /\ g[c].tok.token \in issued
          => ~RefusedWith(c, "Invalid token") /\ ~RefusedWith(c, "Token expired")

\* C19: every save request the relay makes for a valid group or dm frame is
\* answered 201 and leaves the frame's message in the stored messages.
C19_RelaySavesStored ==
    \A i \in 1 .. Len(http) :
       /\ http[i].status = 201
       /\ \E j \in 1 .. Len(db.messages) :
             /\ db.messages[j].sender = http[i].data.sender
             /\ db.messages[j].recipient = http[i].data.recipient

\* one of the six fields is missing from the request
FieldMissing(data) ==
    \/ data = JsonNull
    \/ \E i \in 1 .. Len(required_fields) : required_fields[i] \notin DOMAIN data

\* C20: a POST to /api/messages/save that lacks one of sender, recipient,
\* ciphertext, nonce, mac, type is answered 400 and leaves the messages and the
\* chat lists as they were; one that has all six is answered 201 and adds
\* exactly one message.
C20_SaveAnswers ==
    [][ev'.op = "post" =>
          /\ Len(http') = 1
          /\ IF FieldMissing(http'[1].data)
             THEN http'[1].status = 400 /\ db' = db
             ELSE /\ http'[1].status = 201
                  /\ Len(db'.messages) = Len(db.messages) + 1
                  /\ SubSeq(db'.messages, 1, Len(db.messages)) = db.messages]_vars

\* the step about to be recorded is the dispatch of a valid group or dm frame
ChatStep ==
    /\ ev'.op = "line"
    /\ ev'.f.type \in {"group", "dm"}
    /\ ev'.f.message # ""

\* what the relay writes for the chat frame f of connection c, as the registry
\* and the sockets are: the broadcast, or the dm and the reply to the sender
ChatFrames(c, f) ==
    IF f.type = "group"
    THEN broadcast(clients, GroupData(h[c].username, f), "").wr
    ELSE LET r == send_to_user(clients, f.to, DmData(h[c].username, f))
         IN r.wr \o <<W(c, "client", IF r.ret THEN DmConfirmation(h[c].username, f)
                                               ELSE DmError(f))>>

\* C21: a valid group or dm frame makes one save request, and whatever comes of
\* it (an error status, a connection error, a timeout) the relay writes the
\* same frames: the broadcast, or the dm and the reply to the sender; the
\* handler goes on unless the reply to its own sender could not be written.
C21_SaveFailureHidden ==
    [][ChatStep =>
          /\ Len(http') = 1
          /\ Len(wr') >= Len(ChatFrames(ev'.c, ev'.f))
          /\ SubSeq(wr', 1, Len(ChatFrames(ev'.c, ev'.f))) = ChatFrames(ev'.c, ev'.f)
          /\ h'[ev'.c].pc = "done" <=> (ev'.f.type = "dm" /\ ~SendOk(ev'.c))]_vars

\* a group frame whose save met a connection error has reached another session,
\* and its sender's handler goes on
C21_Witness ==
    /\ ev.op = "line"
    /\ ev.f.type = "group"
    /\ Len(http) = 1
    /\ http[1].status = 0
    /\ \E i \in 1 .. Len(wr) : wr[i].ok /\ wr[i].to # ev.c /\ wr[i].item.type = "group"
    /\ h[ev.c].pc = "frame"

\* C22, as stated: the group and dm frames the relay writes for a frame that
\* carries encrypted_data carry that field, with the value the client sent.
C22_EncryptedFieldsKept ==
    (ev.op = "line" /\ ev.f.type \in {"group", "dm"} /\ "encrypted_data" \in DOMAIN ev.f) =>
        \A i \in 1 .. Len(wr) :
            wr[i].item.type \in {"group", "dm"} =>
                /\ "encrypted_data" \in DOMAIN wr[i].item
                /\ wr[i].item.encrypted_data = ev.f.encrypted_data

\* the last step of connection c wrote this error to the socket `to`
ErrorWritten(c, to, message) ==
    /\ ev.c = c
    /\ \E i \in 1 .. Len(wr) : wr[i].to = to /\ wr[i].item = Error(<<message>>)

\* C23, as stated: the error 'File transfer timeout' is written only for a
\* transfer that is still incomplete and whose time since its start exceeds
\* FILE_TRANSFER_TIMEOUT; none is written for a transfer whose bytes were all
\* relayed.
C23_TimeoutOnlyIncomplete ==
    \A c \in Conns :
        ErrorWritten(c, c, "File transfer timeout") =>
            /\ now - h[c].transfer_start_time > FILE_TRANSFER_TIMEOUT
            /\ h[c].bytes_relayed < h[c].expected

\* the last step failed to write payload bytes to the receiver's socket
PayloadWriteFailed ==
    \E i \in 1 .. Len(wr) :
        wr[i].via = "receiver_socket" /\ wr[i].item.type = "payload" /\ ~wr[i].ok

\* C24, as stated: after a step in which a payload write to the receiver
\* failed, the sender has been written an error frame, its handler is in frame
\* mode, and it holds no transfer metadata and no receiver socket.
C24_ReleasedOnWriteFailure ==
    \A c \in Conns :
        (PayloadWriteFailed /\ ev.c = c) =>
            /\ \E i \in 1 .. Len(wr) : wr[i].to = c /\ wr[i].item.type = "error"
            /\ h[c].pc = "frame"
            /\ h[c].file_metadata = NoMeta
            /\ h[c].receiver_socket = 0

\* the departure frame of a user
Left(username) == System(<<username, "left the chat">>)

\* C25: when the sender's connection closes while its transfer is incomplete,
\* the handler writes the error 'Sender disconnected during file transfer' to
\* the receiver's socket and is left in frame mode with nothing to read; the
\* next step of a handler in that position is the end of its loop and the
\* cleanup: its name is out of the registry, the departure frame has gone to
\* every session that remains, its socket is closed.
C25_SenderLossNotified ==
    [][\A c \in Conns :
          /\ (ev'.op = "relay_eof" /\ ev'.c = c) =>
                /\ h[c].bytes_relayed < h[c].expected
                /\ \E i \in 1 .. Len(wr') :
                      /\ wr'[i].to = h[c].receiver_socket
                      /\ wr'[i].via = "receiver_socket"
                      /\ wr'[i].item = Error(<<"Sender disconnected during file transfer">>)
                /\ h'[c].pc = "frame"
                /\ ~HasNL(h'[c].buffer)
                /\ sock'[c].peer = "gone"
          /\ (h[c].pc = "frame" /\ ~HasNL(h[c].buffer) /\ sock[c].peer = "gone" /\ h'[c] # h[c]) =>
                /\ ev'.op = "eof"
                /\ h'[c].pc = "done"
                /\ clients'[h[c].username] = 0
                /\ sock'[c].closed
                /\ \A u \in Users :
                      (clients'[u] # 0 /\ SendOk(clients'[u])) =>
                          \E i \in 1 .. Len(wr') :
                              wr'[i].to = clients'[u] /\ wr'[i].ok /\ wr'[i].item = Left(h[c].username)]_vars

\* the sender went away in the middle of its transfer and the receiver, still
\* there, has been written the error
C25_Witness ==
    /\ ev.op = "relay_eof"
    /\ \E i \in 1 .. Len(wr) :
          /\ wr[i].via = "receiver_socket"
          /\ wr[i].to # ev.c
          /\ wr[i].ok
          /\ wr[i].item = Error(<<"Sender disconnected during file transfer">>)

\* the error frames written to the socket `to` in the next state's step
ErrorsTo(to) == {i \in 1 .. Len(wr') : wr'[i].to = to /\ wr'[i].item.type = "error"}

\* C26, as stated: a start frame that is answered with an error frame leaves
\* the handler's transfer metadata and receiver socket as they were, and its
\* sender is written exactly one error frame.
C26_RejectedStartLeavesNothing ==
    [][\A c \in Conns :
          (/\ ev'.op = "line"
           /\ ev'.c = c
           /\ ev'.f.type = "file_transfer_start"
           /\ h'[c].pc = "frame"
           /\ ErrorsTo(c) # {}) =>
              /\ Cardinality(ErrorsTo(c)) = 1
              /\ h'[c].file_metadata = h[c].file_metadata
              /\ h'[c].receiver_socket = h[c].receiver_socket]_vars

\* the places of the departure frames of u, and of the user lists, among the
\* writes of the step that leads to the next state
LeftAt(u) == {i \in 1 .. Len(wr') : wr'[i].item = Left(u)}
ListAt == {i \in 1 .. Len(wr') : wr'[i].item.type = "user_list"}

\* C27: in the step in which a handler ends, its name leaves the registry
\* before the departure frame is broadcast (no departure frame goes to the
\* socket that was registered under the name, nor to the handler's own), every
\* departure frame is written before every user list, each session that remains
\* is written one departure frame and one user list, and the socket is closed;
\* a handler that has ended takes no further step.
C27_CleanupOnceInOrder ==
    [][\A c \in Conns :
          /\ (h[c].pc # "done" /\ h'[c].pc = "done") =>
                LET u == h[c].username
                IN /\ clients'[u] = 0
                   /\ sock'[c].closed
                   /\ \A i \in LeftAt(u) : wr'[i].to # c /\ wr'[i].to # clients[u]
                   /\ \A i \in LeftAt(u), j \in ListAt : i < j
                   /\ \A i, j \in LeftAt(u) : wr'[i].to = wr'[j].to => i = j
                   /\ \A i, j \in ListAt : wr'[i].to = wr'[j].to => i = j
                   /\ \A v \in Users :
                         clients'[v] # 0 =>
                            /\ \E i \in LeftAt(u) : wr'[i].to = clients'[v] /\ wr'[i].ok
                            /\ \E j \in ListAt : wr'[j].to = clients'[v] /\ wr'[j].ok
          /\ h[c].pc = "done" => h'[c] = h[c] /\ sock'[c].closed]_vars

\* a handler has just ended at the end of its peer's stream, two other sessions
\* remain, and both have been written its departure
C27_Witness ==
    /\ ev.op = "eof"
    /\ h[ev.c].pc = "done"
    /\ Cardinality({i \in 1 .. Len(wr) : wr[i].ok /\ wr[i].item = Left(h[ev.c].username)}) = 2

\* the writes of the step to the next state that went through the registry
\* and failed
FailedSends == {i \in 1 .. Len(wr') : wr'[i].via = "clients" /\ ~wr'[i].ok}

\* C28, as stated: when a write through the registry to the socket of a
\* registered user fails, the user is out of the registry afterwards, and a
\* departure frame for the user is written in that step or the user's handler
\* is still running and will broadcast it when it ends.
C28_DepartureOnWriteFailure ==
    [][\A i \in FailedSends : \A u \in Users :
          clients[u] = wr'[i].to =>
              /\ clients'[u] # wr'[i].to
              /\ \/ LeftAt(u) # {}
                 \/ h'[wr'[i].to].pc \in {"frame", "relay", "list"}]_vars

\* the line that handler c is about to split off is malformed: not blank, not
\* too long, and no JSON object
Malformed(c) ==
    /\ LineReady(c)
    /\ ~IsBlank(SplitLine(h[c].buffer).line)
    /\ Len(SplitLine(h[c].buffer).line) <= MAX_MESSAGE_SIZE
    /\ Parse(SplitLine(h[c].buffer).line).type \in {"invalid", "not_object"}

\* C29, as stated: the step that takes a malformed line writes one error frame
\* to its sender and nothing else, leaves the registry and the socket as they
\* are, and leaves the handler in frame mode with the rest of the buffer.
C29_MalformedFrameDiscarded ==
    [][\A c \in Conns :
          (Malformed(c) /\ ev'.op = "line" /\ ev'.c = c) =>
              /\ Len(wr') = 1
              /\ wr'[1].to = c
              /\ wr'[1].item.type = "error"
              /\ clients' = clients
              /\ sock' = sock
              /\ h'[c] = [h[c] EXCEPT !.buffer = SplitLine(h[c].buffer).rest]]_vars

\* C30, as stated: the buffer is cleared for overflow only when it holds no
\* complete line, so that a valid frame received in the same read as the end
\* of an oversize frame is still dispatched: no frame of at most
\* MAX_MESSAGE_SIZE bytes lies whole in a buffer that the overflow branch
\* throws away.
C30_ClearedWithoutLine ==
    \A c \in Conns : g[c].lost = {}

\* C31, as stated: the step in which the listener turns a connection away
\* after reading its reply writes one error frame to that connection's socket
\* and nothing else, closes the socket, and leaves the registry and every
\* handler as they were.
C31_RejectionOneError ==
    [][\A c \in Conns :
          (ev'.op \in {"refused", "reject"} /\ ev'.c = c /\ g'[c].tok # NoLine) =>
              /\ Len(wr') = 1
              /\ wr'[1].to = c
              /\ wr'[1].item.type = "error"
              /\ sock'[c].closed
              /\ clients' = clients
              /\ h' = h]_vars

\* C32, as stated: a connection in its handshake does not stay there: it is
\* admitted or closed, and the listener is free to accept the next connection,
\* whatever its peer sends or does not send.
C32_HandshakeEnds ==
    \A c \in Conns : InHandshake(c) ~> ~InHandshake(c)

\* what the connection sent up to its first newline, and behind it
FirstLine(data) == SubSeq(data, 1, (CHOOSE i \in 1 .. Len(data) : data[i] = NL /\ \A j \in 1 .. i - 1 : data[j] # NL) - 1)
Behind(data) == SubSeq(data, Len(FirstLine(data)) + 2, Len(data))

\* the first line that the listener has read from c is a reply with a token
\* that the relay verifies, for a username that is well-formed and free
ValidTokenLine(c) ==
    /\ InHandshake(c)
    /\ HasTokenLine(lis.data)
    /\ HasToken(Reply(FirstLine(lis.data)))
    /\ LET payload == Decode(Reply(FirstLine(lis.data)).token, JWT_SECRET(env))
       IN /\ "sub" \in DOMAIN payload
          /\ payload.sub \in Users
          /\ clients[payload.sub] = 0

\* C36, as stated: the listener's answer to a valid token line is the
\* admission (it fails only when the peer is gone by the time of the welcome),
\* whatever reads the bytes came in, and the handler starts with the bytes that
\* came behind the token line's newline in its buffer.
C36_TokenLineAdmitted ==
    [][\A c \in Conns :
          (ValidTokenLine(c) /\ ~InHandshake(c)') =>
              /\ ev'.op \in {"admit", "welcome_failed"}
              /\ ev'.op = "admit" =>
                    [i \in 1 .. Len(h'[c].buffer) |-> h'[c].buffer[i].t] = Behind(lis.data)]_vars

\* the frame that handler c has read is not dispatched yet, or not to the end
Pending(c) == LineReady(c) \/ h[c].pc \in {"blocked", "stuck"}

\* the admission of connection c is not done yet
Unadmitted(c) == InHandshake(c) \/ h[c].pc = "admit_blocked"

\* C33, as stated: while a session's peer does not read, a frame that the
\* handler of another session has read is still dispatched to the end, and a
\* connection that has been accepted is still admitted or turned away.
C33_SlowPeerNoBlock ==
    \A c \in Conns :
        /\ (Pending(c) /\ ~Stalled(c)) ~> (~Pending(c) \/ Stalled(c))
        /\ Unadmitted(c) ~> ~Unadmitted(c)

\* C34, as stated: the step in which a handler ends takes out of the registry
\* no entry of another connection whose socket can be written to: an entry
\* that a later connection made under the same username stays.
C34_CleanupOwnEntry ==
    [][\A c \in Conns :
          (Running(c) /\ h'[c].pc = "done") =>
              \A u \in Users :
                  (clients[u] \notin {0, c} /\ SendOk(clients[u])) => clients'[u] = clients[u]]_vars

\* C35, as stated: every entry of the registry is the socket of a connection
\* that the listener is admitting or whose handler is running.
C35_EntryHasHandler ==
    \A u \in Users :
        clients[u] # 0 => Running(clients[u]) \/ Admitting(clients[u])

\* C37: an end frame that handler c delivers goes to the socket that the last
\* start frame of c went to, that start frame was delivered, and it carries the
\* end frame's file_id.
C37_EndToStartSocket ==
    \A c \in Conns :
        LET x == g[c].xlog
        IN \A i \in 1 .. Len(x) :
              (x[i].item.type = "file_transfer_end" /\ x[i].ok) =>
                  /\ x[1].item.type = "file_transfer_start"
                  /\ x[1].ok
                  /\ x[1].to = x[i].to
                  /\ x[1].item.file_id = x[i].item.file_id

\* three lines of one sender are dispatched, starts and then an end frame,
\* and the end frame is delivered
C37_Witness ==
    \E c \in Conns :
        /\ Cardinality(g[c].disp) >= 3
        /\ ev = [op |-> "line", c |-> c, f |-> End("F1")]
        /\ Len(wr) = 1
        /\ wr[1].ok

\* the line that handler c is about to split off goes to the dispatch: it is
\* not blank, not too long, and the text of a JSON object
Dispatched(c) ==
    /\ LineReady(c)
    /\ ~IsBlank(SplitLine(h[c].buffer).line)
    /\ Len(SplitLine(h[c].buffer).line) <= MAX_MESSAGE_SIZE
    /\ Parse(SplitLine(h[c].buffer).line).type \notin {"invalid", "not_object"}

\* the stream positions of the payload of the last start frame of c that went
\* into the streaming part: the file_size bytes behind its newline
PayloadRange(c) ==
    LET x == g[c].xlog
    IN IF Len(x) >= 2 /\ x[1].item.type = "file_transfer_start" /\ x[2].item.type = "length_prefix"
       THEN g[c].xbase .. g[c].xbase + x[1].item.file_size - 1
       ELSE {}

\* C38, as stated: no line that goes to the dispatch holds a byte of the
\* payload of the sender's last transfer, whether the relay carried the
\* transfer through or gave it up part-way.
C38_PayloadNotDispatched ==
    [][\A c \in Conns :
          (Dispatched(c) /\ ev'.op = "line" /\ ev'.c = c) =>
              PosSet(SplitLine(h[c].buffer).line) \cap PayloadRange(c) = {}]_vars

\* the requests for the pair (user1, user2) that were answered 200
Successful(user1, user2) ==
    {r \in Reqs : /\ srv[r].pc = "done"
                  /\ srv[r].status = 200
                  /\ srv[r].user1 = user1
                  /\ srv[r].user2 = user2}

\* C39, as stated: for every pair of users, given in either order, the count
\* that /api/session/info reports is the number n of requests for the pair
\* that were answered 200, and the counts in these answers are 1, ..., n.
C39_RatchetCountsRequests ==
    \A user1, user2 \in Users :
        LET pair == sorted(user1, user2)
            n == Cardinality(Successful(pair[1], pair[2]))
        IN user1 # user2 =>
           /\ get_session_info(db, [user1 |-> user1, user2 |-> user2]).ratchet_count = n
           /\ {srv[r].ratchet_count : r \in Successful(pair[1], pair[2])} = 1 .. n

\* the stored dm messages from v to u whose read flag is false
Unread(u, v) ==
    {i \in 1 .. Len(db.messages) :
        /\ db.messages[i].sender = v
        /\ db.messages[i].recipient = u
        /\ db.messages[i].message_type = "dm"
        /\ ~db.messages[i].read}

\* the last request was a mark_read of u for v that was answered 200
MarkedRead(u, v) ==
    /\ ev.op = "mark_read"
    /\ http[1].status = 200
    /\ strip(http[1].data.username) = u
    /\ strip(http[1].data.chat_with) = v

\* C40: after saves and mark_read requests served one after another, a pair
\* has at most one chat-list entry and its unread_count is the number of stored
\* dm messages from chat_with to username whose read flag is false; a
\* mark_read of u for v sets the entry of u for v to 0 and leaves every other
\* entry as it was.
C40_UnreadCountsUnread ==
    /\ [](\A e \in db.chats :
             /\ ChatEntry(db.chats, e.username, e.chat_with) = {e}
             /\ e.unread_count = Cardinality(Unread(e.username, e.chat_with)))
    /\ [][\A u, v \in Users :
             MarkedRead(u, v)' =>
                 /\ \A e \in ChatEntry(db.chats, u, v)' : e.unread_count = 0
                 /\ ChatEntry(db.chats, u, v) = {} <=> ChatEntry(db.chats, u, v)' = {}
                 /\ db.chats \ ChatEntry(db.chats, u, v)
                        = db.chats' \ ChatEntry(db.chats, u, v)']_vars

\* alice has marked bob's messages read: her entry for bob stands at 0 with a
\* read message behind it, and bob's entry for alice still counts her message
C40_Witness ==
    /\ MarkedRead("alice", "bob")
    /\ \E e \in ChatEntry(db.chats, "alice", "bob") : e.unread_count = 0
    /\ \E e \in ChatEntry(db.chats, "bob", "alice") : e.unread_count = 1
    /\ \E i \in 1 .. Len(db.messages) :
           /\ db.messages[i].sender = "bob"
           /\ db.messages[i].recipient = "alice"
           /\ db.messages[i].message_type = "dm"
           /\ db.messages[i].read

\* The relay's own steps are taken when they can be, and time passes; what a
\* client sends, and when, is up to the client.  The fairness of ProcessLine is
\* weak fairness with ENABLED written out as the action's guard, LineReady.
FairBytes ==
    /\ SpecBytes
    /\ WF_vars(Tick)
    /\ \A c \in ByteConns : []<>(~LineReady(c)) \/ []<><<ProcessLine(c)>>_vars

====
